---- MODULE Spec2Model ----
(***************************************************************************)
(* Calendar manager: meeting store, interval-overlap conflict detector,    *)
(* REST handlers and the conversational agent with per-session history.    *)
(*                                                                         *)
(* Two deployments of the server exist in the repository:                  *)
(*   "minimal": the session-aware agent server (title, description,        *)
(*              startTime, endTime, hasConflict);                          *)
(*   "full":    the servers over the fuller schema (organizer, status,     *)
(*              conflictDetails).                                          *)
(* The variable `variant` fixes which one runs.                            *)
(*                                                                         *)
(* JavaScript runs one callback at a time: the code between two awaits is  *)
(* one atomic step.  Every action below is one such segment of a handler,  *)
(* together with the store operation whose completion starts it.           *)
(***************************************************************************)
EXTENDS Integers, Sequences, FiniteSets, TLC

\* ---------------------------------------------------------------- bounds
\* Instants are 0..MaxTime.
MaxTime == 2
\* At most MaxMeetings meetings are ever created (ids 1..MaxMeetings).
MaxMeetings == 2

\* ------------------------------------------------------------- constants
\* addToHistory keeps the last HistoryCap entries.
HistoryCap == 9

\* ---------------------------------------------------------------- values
Times == 0 .. MaxTime
\* `undefined` for a date-valued input.
UndefDate == -1
\* A non-empty string that is not a date.
BadDate == -2
\* The time value of an Invalid Date.
NaN == -3
DateInputs == Times \cup {UndefDate, BadDate}

\* `undefined` for a string-valued field.
NoStr == "undefined"
\* `null` / no meeting id.
NoId == 0
\* An id string that is no ObjectId (e.g. "abc").
BadId == -1
Ids == 1 .. MaxMeetings

Statuses == {"scheduled", "cancelled", "completed"}
\* conflictDetails left undefined.
NoDetails == [fmt |-> "undefined", n |-> 0, titles |-> <<>>]

Slots == {1, 2}

\* new Date(x): a valid ISO string gives its instant, anything else an
\* Invalid Date.
ParseDate(x) == IF x \in Times THEN x ELSE NaN

\* JavaScript truthiness of a date-valued request field.
TruthyDate(x) == x # UndefDate

\* Relational comparison of two Dates: false whenever one is invalid.
DateLt(a, b) == a # NaN /\ b # NaN /\ a < b
DateLe(a, b) == a # NaN /\ b # NaN /\ a <= b
DateGt(a, b) == a # NaN /\ b # NaN /\ a > b

\* Variant of the interval validation that lets an empty interval through.
InvalidIntervalStrict(start, end) == DateLt(end, start)

\* The interval validation of creates and updates: `end <= start`.
InvalidInterval(start, end) == DateLe(end, start)

\* ------------------------------------------------------- meeting records
\* A Meeting document.  In the minimal schema status and conflictDetails do
\* not exist (NoStr / NoDetails).
NoDoc ==
  [id |-> NoId, title |-> NoStr, description |-> NoStr, startTime |-> NaN,
   endTime |-> NaN, status |-> NoStr, hasConflict |-> FALSE,
   conflictDetails |-> NoDetails]

RECURSIVE MapTitles(_)
\* conflicts.map(m => m.title)
MapTitles(s) ==
  IF s = <<>> THEN <<>> ELSE <<Head(s).title>> \o MapTitles(Tail(s))

RECURSIVE MapIds(_)
\* conflicts.map(m => ({id: m._id, ...})): the ids, in order.
MapIds(s) ==
  IF s = <<>> THEN <<>> ELSE <<Head(s).id>> \o MapIds(Tail(s))

StoreIds(st) == {st[i].id : i \in 1 .. Len(st)}

\* The stored document with the given id (NoDoc when there is none).
FindById(st, id) ==
  IF \E i \in 1 .. Len(st) : st[i].id = id
  THEN st[CHOOSE i \in 1 .. Len(st) : st[i].id = id]
  ELSE NoDoc

\* Variant of the removal that leaves the collection as it is.
RemoveNothing(st, id) == st

\* findById / findByIdAndDelete of a string that is no ObjectId: the cast of
\* the filter fails and the query rejects.
IdCastFails(id) == id = BadId

\* The collection without the document of the given id.
RemoveById(st, id) == SelectSeq(st, LAMBDA m : m.id # id)

\* ------------------------------------------------------------------ state
VARIABLES
  variant,                \* "minimal" | "full": which server is deployed
  store,                  \* the Meeting collection, in insertion order
  nextId,                 \* the id the next created meeting gets
  isConnected,            \* db.js: the cached-connection flag
  connections,            \* how many times mongoose.connect has succeeded
  conversationHistories,  \* Map sessionId -> history array (NoHistory: no key)
  pc,                     \* per request slot: where its handler is suspended
  args,                   \* per request slot: the request (and the tool call)
  loc,                    \* per request slot: the handler's local variables
  resp                    \* per request slot: the response sent

vars ==
  <<variant, store, nextId, isConnected, connections, conversationHistories,
    pc, args, loc, resp>>

\* ------------------------------------------------------- request records
NoArgs ==
  [op |-> "none", id |-> NoId, title |-> NoStr, description |-> NoStr,
   startTime |-> UndefDate, endTime |-> UndefDate, status |-> NoStr,
   organizer |-> NoStr, forceCreate |-> FALSE, query |-> NoStr,
   sessionId |-> NoStr, tool |-> NoStr]

\* functionResult of the agent / the body of a REST response.
NoResult ==
  [success |-> NoStr, error |-> NoStr, hasConflict |-> FALSE,
   requiresConfirmation |-> FALSE, conflicts |-> <<>>, meeting |-> NoDoc,
   proposedMeeting |-> NoDoc, count |-> 0]

NoLoc ==
  [session |-> NoStr, start |-> NaN, end |-> NaN, conflicts |-> <<>>,
   meeting |-> NoDoc, loaded |-> NoDoc, messages |-> <<>>,
   result |-> NoResult]

\* No response sent yet.
NoResp ==
  [op |-> "none", code |-> 0, success |-> FALSE, error |-> NoStr,
   action |-> NoStr, result |-> NoResult]

\* res.status(code).json({error}) on an early return or in a catch block.
ErrorResp(op, code, error) ==
  [NoResp EXCEPT !.op = op, !.code = code, !.error = error]

\* Variant of the success envelope without the success flag.
OkRespUnflagged(op, code, action, result) ==
  [NoResp EXCEPT !.op = op, !.code = code, !.action = action,
                 !.result = result]

\* res.status(code).json({success: true, ...}).
OkResp(op, code, action, result) ==
  [NoResp EXCEPT !.op = op, !.code = code, !.success = TRUE,
                 !.action = action, !.result = result]

connVars == <<isConnected, connections>>
dbVars == <<store, nextId>>

\* The handler of slot r is not running.
Free(r) == pc[r] \in {"idle", "done"}

\* Slot r sends its response and its handler ends (its locals are gone).
Respond(r, response) ==
  /\ pc' = [pc EXCEPT ![r] = "done"]
  /\ resp' = [resp EXCEPT ![r] = response]
  /\ args' = [args EXCEPT ![r] = NoArgs]
  /\ loc' = [loc EXCEPT ![r] = NoLoc]

\* Slot r suspends at the next await with locals l.
Goto(r, label, l) ==
  /\ pc' = [pc EXCEPT ![r] = label]
  /\ loc' = [loc EXCEPT ![r] = l]
  /\ UNCHANGED <<args, resp>>

\* Slot r suspends at the next await with the tool call a and locals l.
GotoArgs(r, label, a, l) ==
  /\ pc' = [pc EXCEPT ![r] = label]
  /\ args' = [args EXCEPT ![r] = a]
  /\ loc' = [loc EXCEPT ![r] = l]
  /\ UNCHANGED resp

\* Slot r starts handling request a and reaches `await connectToDatabase()`:
\* connectToDatabase tests the cached flag and, when it is not set, awaits
\* mongoose.connect.
Begin(r, a) ==
  /\ Free(r)
  /\ pc' = [pc EXCEPT ![r] = IF isConnected THEN "connected" ELSE "connecting"]
  /\ args' = [args EXCEPT ![r] = a]
  /\ loc' = [loc EXCEPT ![r] = NoLoc]
  /\ resp' = [resp EXCEPT ![r] = NoResp]

\* Slot r answers request a before any await.
Reject(r, a, code, error) ==
  /\ Free(r)
  /\ Respond(r, ErrorResp(a.op, code, error))

\* Requests that will still insert a meeting (the id space is bounded).
Creating(r) ==
  /\ ~Free(r)
  /\ \/ args[r].op = "rest_create"
     \/ args[r].op = "agent" /\ args[r].tool = "create_meeting"

\* One more creating request fits in the id space.
CanCreate ==
  nextId + Cardinality({q \in Slots : Creating(q)}) <= MaxMeetings

\* ------------------------------------------------------------- connection
\* connectToDatabase after its await: mongoose.connect resolved (ok) and the
\* flag is set, or rejected: the error is rethrown and reaches the handler's
\* catch block.
MongooseConnect(r, ok) ==
  /\ pc[r] = "connecting"
  /\ IF ok
     THEN /\ isConnected' = TRUE
          /\ connections' = connections + 1
          /\ Goto(r, "connected", loc[r])
     ELSE /\ UNCHANGED connVars
          /\ Respond(r, ErrorResp(args[r].op, 500, "Internal Server Error"))
  /\ UNCHANGED <<variant, dbVars, conversationHistories>>

\* ------------------------------------------------------ conflict detector
\* Variant of the time clause with both comparisons inclusive.
TimeOverlapInclusive(m, startTime, endTime) ==
  /\ DateLe(m.startTime, endTime)
  /\ DateLe(startTime, m.endTime)

\* Variant of the time clause with only the first comparison inclusive.
TimeOverlapHalfInclusive(m, startTime, endTime) ==
  /\ DateLe(m.startTime, endTime)
  /\ DateGt(m.endTime, startTime)

\* The time clause of the query: the stored startTime is before the
\* candidate's end and the stored endTime after the candidate's start.
TimeOverlap(m, startTime, endTime) ==
  /\ DateLt(m.startTime, endTime)
  /\ DateGt(m.endTime, startTime)

\* Variant of the status clause that accepts every status.
StatusClauseAny(m) == TRUE

\* The status clause the fuller servers add to the query.
StatusClause(m) == m.status = "scheduled"

\* Variant of the _id clause that excludes nothing.
ExcludeClauseNone(m, excludeMeetingId) == TRUE

\* The _id clause added when an id to exclude was given.
ExcludeClause(m, excludeMeetingId) ==
  excludeMeetingId # NoId => m.id # excludeMeetingId

\* checkTimeConflict: Meeting.find(query) over collection st.
CheckTimeConflict(st, startTime, endTime, excludeMeetingId) ==
  SelectSeq(st, LAMBDA m :
    /\ variant = "full" => StatusClause(m)
    /\ TimeOverlap(m, startTime, endTime)
    /\ ExcludeClause(m, excludeMeetingId))

\* Mongoose casts the query's dates: an Invalid Date is a CastError.
QueryCastFails(startTime, endTime) == startTime = NaN \/ endTime = NaN

\* ---------------------------------------------------------- Meeting model
\* Meeting.create(fields): the inserted document.  The fuller schema has
\* status (default 'scheduled') and conflictDetails.
NewMeeting(id, title, description, start, end, hasConflict, details) ==
  [id |-> id, title |-> title, description |-> description,
   startTime |-> start, endTime |-> end,
   status |-> IF variant = "full" THEN "scheduled" ELSE NoStr,
   hasConflict |-> hasConflict,
   conflictDetails |-> IF variant = "full" THEN details ELSE NoDetails]

\* Schema validation on insert: title (and, in the fuller schema, organizer)
\* are required.
CreateValid(title, organizer) ==
  /\ title # NoStr
  /\ variant = "full" => organizer # NoStr

Paths ==
  {"title", "description", "startTime", "endTime", "status", "hasConflict",
   "conflictDetails"}

\* document.save() sends only the paths whose value differs from the loaded
\* document.
ModifiedPaths(doc, loaded) == {p \in Paths : doc[p] # loaded[p]}

\* The update save() performs on the stored document.
ApplyPaths(stored, doc, paths) ==
  [p \in DOMAIN stored |-> IF p \in paths THEN doc[p] ELSE stored[p]]

\* save() of a changed document whose stored copy is gone fails
\* (DocumentNotFoundError); an unchanged document is not written at all.
SaveFails(st, doc, loaded) ==
  /\ ModifiedPaths(doc, loaded) # {}
  /\ doc.id \notin StoreIds(st)

\* Variant of save() that writes nothing.
SaveNothing(st, doc, loaded) == st

\* The collection after document.save().
SaveDoc(st, doc, loaded) ==
  [i \in 1 .. Len(st) |->
     IF st[i].id = doc.id
     THEN ApplyPaths(st[i], doc, ModifiedPaths(doc, loaded))
     ELSE st[i]]

\* ------------------------------------------------------- conflictDetails
\* POST /api/meetings: "This meeting conflicts with N existing meeting(s):
\* "title" (start - end), ..." (the listed times are left out of the model).
DetailsRestCreate(conflicts) ==
  [fmt |-> "This meeting conflicts with N existing meeting(s): titles, times",
   n |-> Len(conflicts), titles |-> MapTitles(conflicts)]

\* Variant of the update's summary that is never set.
DetailsRestUpdateUnset(conflicts) == NoDetails

\* PUT /api/meetings/:id: "This meeting conflicts with N existing
\* meeting(s): "title", ...".
DetailsRestUpdate(conflicts) ==
  [fmt |-> "This meeting conflicts with N existing meeting(s): titles",
   n |-> Len(conflicts), titles |-> MapTitles(conflicts)]

\* agent create_meeting: "Conflicts with N meeting(s): title, ...".
DetailsAgentCreate(conflicts) ==
  [fmt |-> "Conflicts with N meeting(s): titles",
   n |-> Len(conflicts), titles |-> MapTitles(conflicts)]

\* agent update_meeting: "Conflicts with N meeting(s)".
DetailsAgentUpdate(conflicts) ==
  [fmt |-> "Conflicts with N meeting(s)", n |-> Len(conflicts),
   titles |-> <<>>]

\* ------------------------------------------------ conversation history
SessionIds == {"default", "s1"}

\* No key for the session in the Map.
NoHistory == [present |-> FALSE, history |-> <<>>]

\* A history record: its role, whether it carries tool_calls, and the query
\* of the exchange it belongs to (the content / tool_call_id).
Entry(role, toolCalls, query) ==
  [role |-> role, tool_calls |-> toolCalls, query |-> query]

\* history.slice(-n)
SliceLast(h, n) ==
  IF Len(h) <= n THEN h ELSE SubSeq(h, Len(h) - n + 1, Len(h))

\* Variant of the cap that lets one more entry through.
TruncateLate(h) ==
  IF Len(h) > HistoryCap + 1 THEN SliceLast(h, HistoryCap) ELSE h

\* Variant of the cap that keeps the oldest entries.
TruncateOldest(h) ==
  IF Len(h) > HistoryCap THEN SubSeq(h, 1, HistoryCap) ELSE h

\* addToHistory's last statement: a history longer than the cap is replaced
\* by its last HistoryCap entries.
Truncate(h) ==
  IF Len(h) > HistoryCap THEN SliceLast(h, HistoryCap) ELSE h

\* getConversationHistory: the Map after the call (the key is created when
\* absent).
GetConversationHistory(hists, sessionId) ==
  IF hists[sessionId].present THEN hists
  ELSE [hists EXCEPT ![sessionId] = [present |-> TRUE, history |-> <<>>]]

\* Variant of addToHistory that writes back a history that does not hold
\* what was stored before.
AddToHistoryOverwriting(hists, sessionId, userMessage, hasToolCalls, toolCall, toolResult) ==
  LET h1 == <<Entry("user", FALSE, userMessage)>>
      h2 == IF toolCall /\ hasToolCalls
            THEN h1 \o <<Entry("assistant", TRUE, userMessage),
                          Entry("tool", FALSE, userMessage)>>
            ELSE Append(h1, Entry("assistant", FALSE, userMessage))
  IN [hists EXCEPT ![sessionId] = [present |-> TRUE, history |-> h2]]

\* Variant of addToHistory whose user turn lands in front of what is stored
\* and whose assistant records land behind it (the pushes of one exchange
\* separated by the records of others).
AddToHistorySplit(hists, sessionId, userMessage, hasToolCalls, toolCall, toolResult) ==
  LET got == GetConversationHistory(hists, sessionId)
      h1 == <<Entry("user", FALSE, userMessage)>> \o got[sessionId].history
      h2 == IF toolCall /\ hasToolCalls
            THEN h1 \o <<Entry("assistant", TRUE, userMessage),
                          Entry("tool", FALSE, userMessage)>>
            ELSE Append(h1, Entry("assistant", FALSE, userMessage))
  IN [got EXCEPT ![sessionId].history = Truncate(h2)]

\* Variant of addToHistory that appends only to a session that still has
\* its key.
AddToHistoryIfPresent(hists, sessionId, userMessage, hasToolCalls, toolCall, toolResult) ==
  LET h0 == hists[sessionId].history
      h1 == Append(h0, Entry("user", FALSE, userMessage))
      h2 == IF toolCall /\ hasToolCalls
            THEN h1 \o <<Entry("assistant", TRUE, userMessage),
                          Entry("tool", FALSE, userMessage)>>
            ELSE Append(h1, Entry("assistant", FALSE, userMessage))
  IN IF hists[sessionId].present
     THEN [hists EXCEPT ![sessionId].history = Truncate(h2)]
     ELSE hists

\* Variant of addToHistory that never records the tool result.
AddToHistoryNoResult(hists, sessionId, userMessage, hasToolCalls, toolCall, toolResult) ==
  LET got == GetConversationHistory(hists, sessionId)
      h0 == got[sessionId].history
      h1 == Append(h0, Entry("user", FALSE, userMessage))
      h2 == IF toolCall /\ hasToolCalls
            THEN Append(h1, Entry("assistant", TRUE, userMessage))
            ELSE Append(h1, Entry("assistant", FALSE, userMessage))
  IN [got EXCEPT ![sessionId].history = Truncate(h2)]

\* addToHistory(sessionId, userMessage, assistantMessage, toolCall,
\* toolResult): the Map after the call.  hasToolCalls: assistantMessage has
\* tool_calls; toolCall / toolResult: the argument is not null.
AddToHistory(hists, sessionId, userMessage, hasToolCalls, toolCall, toolResult) ==
  LET got == GetConversationHistory(hists, sessionId)
      h0 == got[sessionId].history
      h1 == Append(h0, Entry("user", FALSE, userMessage))
      h2 == IF toolCall /\ hasToolCalls
            THEN LET h == Append(h1, Entry("assistant", TRUE, userMessage))
                 IN IF toolResult
                    THEN Append(h, Entry("tool", FALSE, userMessage))
                    ELSE h
            ELSE Append(h1, Entry("assistant", FALSE, userMessage))
  IN [got EXCEPT ![sessionId].history = Truncate(h2)]

\* Variant of the delete that empties the whole Map.
DeleteEveryHistory(hists, sessionId) == [s \in DOMAIN hists |-> NoHistory]

\* conversationHistories.delete(sessionId): the Map after the call.
DeleteHistory(hists, sessionId) == [hists EXCEPT ![sessionId] = NoHistory]

\* POST /api/agent/clear-history
ClearHistory(r, sessionId) ==
  /\ variant = "minimal"
  /\ Free(r)
  /\ IF sessionId = NoStr
     THEN /\ Respond(r, ErrorResp("clear", 400, "sessionId is required"))
          /\ UNCHANGED conversationHistories
     ELSE /\ conversationHistories' =
               DeleteHistory(conversationHistories, sessionId)
          /\ Respond(r, OkResp("clear", 200, NoStr, NoResult))
  /\ UNCHANGED <<variant, dbVars, connVars>>

\* ------------------------------------------------- POST /api/meetings
\* Up to `await connectToDatabase()`: the required fields.
RestCreateStart(r, title, description, startTime, endTime, organizer) ==
  LET a == [NoArgs EXCEPT !.op = "rest_create", !.title = title,
                          !.description = description,
                          !.startTime = startTime, !.endTime = endTime,
                          !.organizer = organizer]
  IN /\ CanCreate
     /\ IF \/ title = NoStr
           \/ ~TruthyDate(startTime)
           \/ ~TruthyDate(endTime)
           \/ variant = "full" /\ organizer = NoStr
        THEN Reject(r, a, 400, "Missing required fields")
        ELSE Begin(r, a)
     /\ UNCHANGED <<variant, dbVars, connVars, conversationHistories>>

\* After the connection: the dates are parsed and validated, and
\* checkTimeConflict's find runs.
RestCreateChecked(r) ==
  LET start == ParseDate(args[r].startTime)
      end == ParseDate(args[r].endTime)
      conflictingMeetings == CheckTimeConflict(store, start, end, NoId)
      hasConflict == Len(conflictingMeetings) > 0
      conflictDetails ==
        IF hasConflict THEN DetailsRestCreate(conflictingMeetings)
        ELSE NoDetails
  IN /\ pc[r] = "connected"
     /\ args[r].op = "rest_create"
     /\ IF start = NaN \/ end = NaN
        THEN Respond(r, ErrorResp("rest_create", 400,
               "Invalid date format for startTime or endTime"))
        ELSE IF InvalidInterval(start, end)
        THEN Respond(r, ErrorResp("rest_create", 400,
               "endTime must be after startTime"))
        ELSE Goto(r, "rest_create_insert",
               [loc[r] EXCEPT
                  !.start = start, !.end = end,
                  !.conflicts = conflictingMeetings,
                  !.meeting =
                    NewMeeting(NoId, args[r].title, args[r].description,
                               start, end, hasConflict, conflictDetails)])
     /\ UNCHANGED <<variant, dbVars, connVars, conversationHistories>>

\* Variant of the insertion that refuses a meeting with conflicts.
RestCreateRefusingConflicts(r) ==
  LET newMeeting == [loc[r].meeting EXCEPT !.id = nextId]
  IN /\ pc[r] = "rest_create_insert"
     /\ IF newMeeting.hasConflict
        THEN /\ UNCHANGED <<store, nextId>>
             /\ Respond(r, ErrorResp("rest_create", 409, "Conflict"))
        ELSE /\ store' = Append(store, newMeeting)
             /\ nextId' = nextId + 1
             /\ Respond(r, OkResp("rest_create", 201, NoStr,
                  [NoResult EXCEPT !.success = "true",
                                   !.meeting = newMeeting]))
     /\ UNCHANGED <<variant, connVars, conversationHistories>>

\* Meeting.create resolves: the meeting is stored and the 201 response sent
\* (its conflicts are listed only when there are any).
RestCreateCreated(r) ==
  LET newMeeting == [loc[r].meeting EXCEPT !.id = nextId]
  IN /\ pc[r] = "rest_create_insert"
     /\ store' = Append(store, newMeeting)
     /\ nextId' = nextId + 1
     /\ Respond(r, OkResp("rest_create", 201, NoStr,
          [NoResult EXCEPT
             !.success = "true",
             !.meeting = newMeeting,
             !.conflicts = IF newMeeting.hasConflict
                           THEN MapIds(loc[r].conflicts) ELSE <<>>]))
     /\ UNCHANGED <<variant, connVars, conversationHistories>>

\* ---------------------------------------------- PUT /api/meetings/:id
\* Up to `await connectToDatabase()`: nothing is validated yet.
RestUpdateStart(r, id, title, description, startTime, endTime, status) ==
  /\ Begin(r, [NoArgs EXCEPT !.op = "rest_update", !.id = id,
                             !.title = title, !.description = description,
                             !.startTime = startTime, !.endTime = endTime,
                             !.status = status])
  /\ UNCHANGED <<variant, dbVars, connVars, conversationHistories>>

\* Variant of the field assignments that also resets the conflict state.
ApplyFieldsAndReset(meeting, a) ==
  [meeting EXCEPT
     !.title = IF a.title # NoStr THEN a.title ELSE @,
     !.description = IF a.description # NoStr THEN a.description ELSE @,
     !.status = IF variant = "full" /\ a.status # NoStr THEN a.status ELSE @,
     !.hasConflict = FALSE,
     !.conflictDetails = NoDetails]

\* The non-time fields an update sets on the loaded document (status only
\* in the fuller servers).
ApplyFields(meeting, a) ==
  [meeting EXCEPT
     !.title = IF a.title # NoStr THEN a.title ELSE @,
     !.description = IF a.description # NoStr THEN a.description ELSE @,
     !.status = IF variant = "full" /\ a.status # NoStr THEN a.status ELSE @]

\* newStart / newEnd of an update: the parsed field when one was sent, the
\* loaded document's value otherwise.
NewTime(input, current) ==
  IF TruthyDate(input) THEN ParseDate(input) ELSE current

\* findById resolves; the fields are applied to the loaded document and the
\* new interval is validated.
RestUpdateLoaded(r) ==
  LET found == FindById(store, args[r].id)
      meeting == ApplyFields(found, args[r])
      newStart == NewTime(args[r].startTime, found.startTime)
      newEnd == NewTime(args[r].endTime, found.endTime)
  IN /\ pc[r] = "connected"
     /\ args[r].op = "rest_update"
     /\ IF IdCastFails(args[r].id)
        THEN Respond(r, ErrorResp("rest_update", 500,
               "Internal Server Error"))
        ELSE IF found = NoDoc
        THEN Respond(r, ErrorResp("rest_update", 404, "Meeting not found"))
        ELSE IF TruthyDate(args[r].startTime) \/ TruthyDate(args[r].endTime)
        THEN IF InvalidInterval(newStart, newEnd)
             THEN Respond(r, ErrorResp("rest_update", 400,
                    "endTime must be after startTime"))
             ELSE IF QueryCastFails(newStart, newEnd)
             THEN Respond(r, ErrorResp("rest_update", 500,
                    "Internal Server Error"))
             ELSE Goto(r, "rest_update_check",
                    [loc[r] EXCEPT !.loaded = found, !.meeting = meeting,
                                   !.start = newStart, !.end = newEnd])
        ELSE Goto(r, "rest_update_save",
               [loc[r] EXCEPT !.loaded = found, !.meeting = meeting])
     /\ UNCHANGED <<variant, dbVars, connVars, conversationHistories>>

\* checkTimeConflict's find resolves; times and conflict state are set on
\* the document.
RestUpdateChecked(r) ==
  LET conflictingMeetings ==
        CheckTimeConflict(store, loc[r].start, loc[r].end, loc[r].meeting.id)
      hasConflict == Len(conflictingMeetings) > 0
  IN /\ pc[r] = "rest_update_check"
     /\ Goto(r, "rest_update_save",
          [loc[r] EXCEPT
             !.conflicts = conflictingMeetings,
             !.meeting = [@ EXCEPT
                !.startTime = loc[r].start,
                !.endTime = loc[r].end,
                !.hasConflict = hasConflict,
                !.conflictDetails =
                  IF variant = "full" /\ hasConflict
                  THEN DetailsRestUpdate(conflictingMeetings)
                  ELSE NoDetails]])
     /\ UNCHANGED <<variant, dbVars, connVars, conversationHistories>>

\* meeting.save() resolves (or rejects: the catch block answers 500).
RestUpdateSaved(r) ==
  /\ pc[r] = "rest_update_save"
  /\ IF SaveFails(store, loc[r].meeting, loc[r].loaded)
     THEN /\ Respond(r, ErrorResp("rest_update", 500,
                  "Internal Server Error"))
          /\ UNCHANGED store
     ELSE /\ store' = SaveDoc(store, loc[r].meeting, loc[r].loaded)
          /\ Respond(r, OkResp("rest_update", 200, NoStr,
               [NoResult EXCEPT !.success = "true",
                                !.meeting = loc[r].meeting]))
  /\ UNCHANGED <<variant, nextId, connVars, conversationHistories>>

\* ------------------------------------------- DELETE /api/meetings/:id
RestDeleteStart(r, id) ==
  /\ Begin(r, [NoArgs EXCEPT !.op = "rest_delete", !.id = id])
  /\ UNCHANGED <<variant, dbVars, connVars, conversationHistories>>

\* Variant of the deletion that computes hasConflict of the remaining
\* meetings again.
RestDeletedRevalidating(r) ==
  LET meeting == FindById(store, args[r].id)
      rest == RemoveById(store, args[r].id)
      again(m) == Len(CheckTimeConflict(rest, m.startTime, m.endTime, m.id)) > 0
  IN /\ pc[r] = "connected"
     /\ args[r].op = "rest_delete"
     /\ IF IdCastFails(args[r].id)
        THEN /\ Respond(r, ErrorResp("rest_delete", 500,
                  "Internal Server Error"))
             /\ UNCHANGED store
        ELSE IF meeting = NoDoc
        THEN /\ Respond(r, ErrorResp("rest_delete", 404, "Meeting not found"))
             /\ UNCHANGED store
        ELSE /\ store' = [i \in 1 .. Len(rest) |->
                           [rest[i] EXCEPT !.hasConflict = again(rest[i])]]
             /\ Respond(r, OkResp("rest_delete", 200, NoStr,
                  [NoResult EXCEPT !.success = "true", !.meeting = meeting]))
     /\ UNCHANGED <<variant, nextId, connVars, conversationHistories>>

\* findByIdAndDelete resolves.
RestDeleted(r) ==
  LET meeting == FindById(store, args[r].id)
  IN /\ pc[r] = "connected"
     /\ args[r].op = "rest_delete"
     /\ IF IdCastFails(args[r].id)
        THEN /\ Respond(r, ErrorResp("rest_delete", 500,
                  "Internal Server Error"))
             /\ UNCHANGED store
        ELSE IF meeting = NoDoc
        THEN /\ Respond(r, ErrorResp("rest_delete", 404, "Meeting not found"))
             /\ UNCHANGED store
        ELSE /\ store' = RemoveById(store, args[r].id)
             /\ Respond(r, OkResp("rest_delete", 200, NoStr,
                  [NoResult EXCEPT !.success = "true", !.meeting = meeting]))
     /\ UNCHANGED <<variant, nextId, connVars, conversationHistories>>

\* ---------------------------------------------- GET /api/meetings/:id
\* Up to `await connectToDatabase()`.
RestGetStart(r, id) ==
  /\ Begin(r, [NoArgs EXCEPT !.op = "rest_get", !.id = id])
  /\ UNCHANGED <<variant, dbVars, connVars, conversationHistories>>

\* findById resolves.
RestGot(r) ==
  LET meeting == FindById(store, args[r].id)
  IN /\ pc[r] = "connected"
     /\ args[r].op = "rest_get"
     /\ IF IdCastFails(args[r].id)
        THEN Respond(r, ErrorResp("rest_get", 500, "Internal Server Error"))
        ELSE IF meeting = NoDoc
        THEN Respond(r, ErrorResp("rest_get", 404, "Meeting not found"))
        ELSE Respond(r, OkResp("rest_get", 200, NoStr,
               [NoResult EXCEPT !.success = "true", !.meeting = meeting]))
     /\ UNCHANGED <<variant, dbVars, connVars, conversationHistories>>

\* ----------------------------------------------------- POST /api/agent
Tools ==
  {"create_meeting", "get_meetings", "update_meeting", "delete_meeting"}

\* Up to `await connectToDatabase()`: the query is required.
AgentStart(r, query, sessionId) ==
  LET a == [NoArgs EXCEPT !.op = "agent", !.query = query,
                          !.sessionId = sessionId]
  IN /\ IF query = NoStr
        THEN Reject(r, a, 400, "Query is required")
        ELSE Begin(r, a)
     /\ UNCHANGED <<variant, dbVars, connVars, conversationHistories>>

\* Variant of the history load that uses the shared session whatever the
\* request names.
AgentConnectedShared(r) ==
  LET got == GetConversationHistory(conversationHistories, "default")
  IN /\ pc[r] = "connected"
     /\ args[r].op = "agent"
     /\ conversationHistories' = got
     /\ Goto(r, "agent_interpret",
          [loc[r] EXCEPT !.session = "default",
                         !.messages = got["default"].history])
     /\ UNCHANGED <<variant, dbVars, connVars>>

\* After the connection: the session's history is read (its key is created
\* when absent) and the first completion is requested.
AgentConnected(r) ==
  LET session ==
        IF args[r].sessionId # NoStr THEN args[r].sessionId ELSE "default"
      got == GetConversationHistory(conversationHistories, session)
  IN /\ pc[r] = "connected"
     /\ args[r].op = "agent"
     /\ IF variant = "minimal"
        THEN /\ conversationHistories' = got
             /\ Goto(r, "agent_interpret",
                  [loc[r] EXCEPT !.session = session,
                                 !.messages = got[session].history])
        ELSE /\ UNCHANGED conversationHistories
             /\ Goto(r, "agent_interpret", loc[r])
     /\ UNCHANGED <<variant, dbVars, connVars>>

\* Variant of the append that records every exchange as a tool exchange.
AppendedAsTool(r, toolCalled) ==
  IF variant = "minimal"
  THEN AddToHistory(conversationHistories, loc[r].session, args[r].query,
                    TRUE, TRUE, TRUE)
  ELSE conversationHistories

\* The history after the exchange of slot r is appended (only the
\* session-aware server keeps one).
Appended(r, toolCalled) ==
  IF variant = "minimal"
  THEN AddToHistory(conversationHistories, loc[r].session, args[r].query,
                    toolCalled, toolCalled, toolCalled)
  ELSE conversationHistories

\* Where the switch suspends for the tools that start with a store call.
ToolLabel(tool) ==
  CASE tool = "get_meetings" -> "agent_get"
    [] tool = "update_meeting" -> "agent_update_load"
    [] tool = "delete_meeting" -> "agent_delete"

\* Variant of the default case that reports success.
UnknownFunctionSilent == [NoResult EXCEPT !.success = "true"]

\* functionResult of the switch's default case.
UnknownFunction == [NoResult EXCEPT !.error = "Unknown function"]

\* The first completion resolves (ok) with a tool call, or with a plain
\* message (tool = "none"), or rejects.  The switch runs up to its first await.
AgentInterpreted(r, ok, tool, fa) ==
  LET a == [fa EXCEPT !.op = "agent", !.query = args[r].query,
                      !.sessionId = args[r].sessionId, !.tool = tool]
      start == ParseDate(fa.startTime)
      end == ParseDate(fa.endTime)
  IN /\ pc[r] = "agent_interpret"
     /\ tool = "create_meeting" => CanCreate
     /\ IF ~ok
        THEN /\ Respond(r, ErrorResp("agent", 500, "Internal Server Error"))
             /\ UNCHANGED conversationHistories
        ELSE
          CASE tool = "none" ->
               /\ conversationHistories' = Appended(r, FALSE)
               /\ Respond(r, OkResp("agent", 200, "none", NoResult))
            [] tool = "create_meeting" ->
               /\ UNCHANGED conversationHistories
               /\ IF InvalidInterval(start, end)
                  THEN GotoArgs(r, "agent_respond", a,
                         [loc[r] EXCEPT !.result = [NoResult EXCEPT
                            !.error = "endTime must be after startTime"]])
                  ELSE IF QueryCastFails(start, end)
                  THEN Respond(r, ErrorResp("agent", 500,
                         "Internal Server Error"))
                  ELSE GotoArgs(r, "agent_create_check", a,
                         [loc[r] EXCEPT !.start = start, !.end = end])
            [] tool \in {"get_meetings", "update_meeting",
                         "delete_meeting"} ->
               /\ UNCHANGED conversationHistories
               /\ GotoArgs(r, ToolLabel(tool), a, loc[r])
            [] OTHER ->
               /\ UNCHANGED conversationHistories
               /\ GotoArgs(r, "agent_respond", a,
                    [loc[r] EXCEPT !.result = UnknownFunction])
     /\ UNCHANGED <<variant, dbVars, connVars>>

\* Variant of the gate that never stops a create.
NeedsConfirmationNever(hasConflict, forceCreate) == FALSE

\* Variant of the gate that ignores forceCreate.
NeedsConfirmationAlways(hasConflict, forceCreate) ==
  variant = "minimal" /\ hasConflict

\* The confirmation gate of the session-aware server: a conflict and no
\* forceCreate.
NeedsConfirmation(hasConflict, forceCreate) ==
  variant = "minimal" /\ hasConflict /\ ~forceCreate

\* Variant of the conflict check that tries again by itself, forced, instead
\* of asking for confirmation.
AgentCreateCheckedRetrying(r) ==
  LET conflicts == CheckTimeConflict(store, loc[r].start, loc[r].end, NoId)
      hasConflict == Len(conflicts) > 0
  IN /\ pc[r] = "agent_create_check"
     /\ IF NeedsConfirmation(hasConflict, args[r].forceCreate)
        THEN GotoArgs(r, "agent_create_check",
               [args[r] EXCEPT !.forceCreate = TRUE], loc[r])
        ELSE Goto(r, "agent_create_insert",
               [loc[r] EXCEPT
                  !.conflicts = conflicts,
                  !.meeting =
                    NewMeeting(NoId, args[r].title, args[r].description,
                      loc[r].start, loc[r].end, hasConflict,
                      IF hasConflict THEN DetailsAgentCreate(conflicts)
                      ELSE NoDetails)])
     /\ UNCHANGED <<variant, dbVars, connVars, conversationHistories>>

\* create_meeting: checkTimeConflict's find resolves.  The session-aware
\* server stops here when there is a conflict and forceCreate is not set.
AgentCreateChecked(r) ==
  LET conflicts == CheckTimeConflict(store, loc[r].start, loc[r].end, NoId)
      hasConflict == Len(conflicts) > 0
  IN /\ pc[r] = "agent_create_check"
     /\ IF NeedsConfirmation(hasConflict, args[r].forceCreate)
        THEN Goto(r, "agent_respond",
               [loc[r] EXCEPT
                  !.conflicts = conflicts,
                  !.result = [NoResult EXCEPT
                     !.success = "false", !.hasConflict = TRUE,
                     !.requiresConfirmation = TRUE,
                     !.conflicts = MapIds(conflicts),
                     !.proposedMeeting =
                       [NoDoc EXCEPT !.title = args[r].title,
                                     !.description = args[r].description,
                                     !.startTime = loc[r].start,
                                     !.endTime = loc[r].end]]])
        ELSE Goto(r, "agent_create_insert",
               [loc[r] EXCEPT
                  !.conflicts = conflicts,
                  !.meeting =
                    NewMeeting(NoId, args[r].title, args[r].description,
                      loc[r].start, loc[r].end, hasConflict,
                      IF hasConflict THEN DetailsAgentCreate(conflicts)
                      ELSE NoDetails)])
     /\ UNCHANGED <<variant, dbVars, connVars, conversationHistories>>

\* Variant of the agent's insertion that looks for conflicts again when it
\* commits.
AgentCreateCreatedRechecking(r) ==
  LET again == CheckTimeConflict(store, loc[r].start, loc[r].end, NoId)
      newMeeting == [loc[r].meeting EXCEPT !.id = nextId,
                                           !.hasConflict = Len(again) > 0]
  IN /\ pc[r] = "agent_create_insert"
     /\ store' = Append(store, newMeeting)
     /\ nextId' = nextId + 1
     /\ Goto(r, "agent_respond",
          [loc[r] EXCEPT
             !.meeting = newMeeting,
             !.result = [NoResult EXCEPT
                !.success = "true", !.meeting = newMeeting,
                !.hasConflict = newMeeting.hasConflict]])
     /\ UNCHANGED <<variant, connVars, conversationHistories>>

\* create_meeting: Meeting.create resolves, or rejects on schema validation.
AgentCreateCreated(r) ==
  LET newMeeting == [loc[r].meeting EXCEPT !.id = nextId]
      hasConflict == newMeeting.hasConflict
  IN /\ pc[r] = "agent_create_insert"
     /\ IF ~CreateValid(args[r].title, args[r].organizer)
        THEN /\ Respond(r, ErrorResp("agent", 500, "Internal Server Error"))
             /\ UNCHANGED dbVars
        ELSE /\ store' = Append(store, newMeeting)
             /\ nextId' = nextId + 1
             /\ Goto(r, "agent_respond",
                  [loc[r] EXCEPT
                     !.meeting = newMeeting,
                     !.result = [NoResult EXCEPT
                        !.success = "true", !.meeting = newMeeting,
                        !.hasConflict = hasConflict,
                        !.conflicts =
                          IF hasConflict THEN MapIds(loc[r].conflicts)
                          ELSE <<>>]])
     /\ UNCHANGED <<variant, connVars, conversationHistories>>

\* get_meetings: the startTime range filter of the query.
RangeMatch(m, startDate, endDate) ==
  /\ TruthyDate(startDate) => m.startTime >= ParseDate(startDate)
  /\ TruthyDate(endDate) => m.startTime <= ParseDate(endDate)

\* get_meetings: Meeting.find(query) resolves (the result is sorted by
\* startTime and cut at the limit, default 50; only its size is kept).
AgentGot(r) ==
  LET startDate == args[r].startTime
      endDate == args[r].endTime
      meetings == SelectSeq(store, LAMBDA m : RangeMatch(m, startDate, endDate))
  IN /\ pc[r] = "agent_get"
     /\ IF \/ TruthyDate(startDate) /\ ParseDate(startDate) = NaN
           \/ TruthyDate(endDate) /\ ParseDate(endDate) = NaN
        THEN Respond(r, ErrorResp("agent", 500, "Internal Server Error"))
        ELSE Goto(r, "agent_respond",
               [loc[r] EXCEPT !.result = [NoResult EXCEPT
                  !.success = "true", !.count = Len(meetings)]])
     /\ UNCHANGED <<variant, dbVars, connVars, conversationHistories>>

\* update_meeting: findById resolves; fields are applied and the new
\* interval validated.
AgentUpdateLoaded(r) ==
  LET found == FindById(store, args[r].id)
      meeting == ApplyFields(found, args[r])
      newStart == NewTime(args[r].startTime, found.startTime)
      newEnd == NewTime(args[r].endTime, found.endTime)
  IN /\ pc[r] = "agent_update_load"
     /\ IF IdCastFails(args[r].id)
        THEN Respond(r, ErrorResp("agent", 500, "Internal Server Error"))
        ELSE IF found = NoDoc
        THEN Goto(r, "agent_respond",
               [loc[r] EXCEPT !.result = [NoResult EXCEPT
                  !.success = "false", !.error = "Meeting not found"]])
        ELSE IF TruthyDate(args[r].startTime) \/ TruthyDate(args[r].endTime)
        THEN IF InvalidInterval(newStart, newEnd)
             THEN Goto(r, "agent_respond",
                    [loc[r] EXCEPT !.result = [NoResult EXCEPT
                       !.success = "false",
                       !.error = "endTime must be after startTime"]])
             ELSE IF QueryCastFails(newStart, newEnd)
             THEN Respond(r, ErrorResp("agent", 500,
                    "Internal Server Error"))
             ELSE Goto(r, "agent_update_check",
                    [loc[r] EXCEPT !.loaded = found, !.meeting = meeting,
                                   !.start = newStart, !.end = newEnd])
        ELSE Goto(r, "agent_update_save",
               [loc[r] EXCEPT !.loaded = found, !.meeting = meeting])
     /\ UNCHANGED <<variant, dbVars, connVars, conversationHistories>>

\* update_meeting: checkTimeConflict's find resolves.
AgentUpdateChecked(r) ==
  LET updateConflicts ==
        CheckTimeConflict(store, loc[r].start, loc[r].end, loc[r].meeting.id)
      hasConflict == Len(updateConflicts) > 0
  IN /\ pc[r] = "agent_update_check"
     /\ Goto(r, "agent_update_save",
          [loc[r] EXCEPT
             !.conflicts = updateConflicts,
             !.meeting = [@ EXCEPT
                !.startTime = loc[r].start,
                !.endTime = loc[r].end,
                !.hasConflict = hasConflict,
                !.conflictDetails =
                  IF variant = "full" /\ hasConflict
                  THEN DetailsAgentUpdate(updateConflicts)
                  ELSE NoDetails]])
     /\ UNCHANGED <<variant, dbVars, connVars, conversationHistories>>

\* update_meeting: meeting.save() resolves or rejects.
AgentUpdateSaved(r) ==
  /\ pc[r] = "agent_update_save"
  /\ IF SaveFails(store, loc[r].meeting, loc[r].loaded)
     THEN /\ Respond(r, ErrorResp("agent", 500, "Internal Server Error"))
          /\ UNCHANGED store
     ELSE /\ store' = SaveDoc(store, loc[r].meeting, loc[r].loaded)
          /\ Goto(r, "agent_respond",
               [loc[r] EXCEPT !.result = [NoResult EXCEPT
                  !.success = "true", !.meeting = loc[r].meeting]])
  /\ UNCHANGED <<variant, nextId, connVars, conversationHistories>>

\* delete_meeting: findByIdAndDelete resolves.
AgentDeleted(r) ==
  LET deletedMeeting == FindById(store, args[r].id)
  IN /\ pc[r] = "agent_delete"
     /\ IF IdCastFails(args[r].id)
        THEN /\ UNCHANGED store
             /\ Respond(r, ErrorResp("agent", 500, "Internal Server Error"))
        ELSE IF deletedMeeting = NoDoc
        THEN /\ UNCHANGED store
             /\ Goto(r, "agent_respond",
                  [loc[r] EXCEPT !.result = [NoResult EXCEPT
                     !.success = "false", !.error = "Meeting not found"]])
        ELSE /\ store' = RemoveById(store, args[r].id)
             /\ Goto(r, "agent_respond",
                  [loc[r] EXCEPT !.result = [NoResult EXCEPT
                     !.success = "true", !.meeting = deletedMeeting]])
     /\ UNCHANGED <<variant, nextId, connVars, conversationHistories>>

\* Variant of the last step in which the exchange is stored whether or not
\* the second completion resolves (as if appended before the call).
AgentAnsweredAppendingFirst(r, ok) ==
  /\ pc[r] = "agent_respond"
  /\ conversationHistories' = Appended(r, TRUE)
  /\ IF ok
     THEN Respond(r, OkResp("agent", 200, args[r].tool, loc[r].result))
     ELSE Respond(r, ErrorResp("agent", 500, "Internal Server Error"))
  /\ UNCHANGED <<variant, dbVars, connVars>>

\* Variant of the last step that takes a created meeting out of the store
\* again when the second completion rejects.
AgentAnsweredRollingBack(r, ok) ==
  /\ pc[r] = "agent_respond"
  /\ IF ok
     THEN /\ conversationHistories' = Appended(r, TRUE)
          /\ Respond(r, OkResp("agent", 200, args[r].tool, loc[r].result))
          /\ UNCHANGED store
     ELSE /\ UNCHANGED conversationHistories
          /\ Respond(r, ErrorResp("agent", 500, "Internal Server Error"))
          /\ store' = RemoveById(store, loc[r].result.meeting.id)
  /\ UNCHANGED <<variant, nextId, connVars>>

\* Variant of the last step that sends nothing when the second completion
\* rejects.
AgentAnsweredOrSilent(r, ok) ==
  /\ pc[r] = "agent_respond"
  /\ IF ok
     THEN /\ conversationHistories' = Appended(r, TRUE)
          /\ Respond(r, OkResp("agent", 200, args[r].tool, loc[r].result))
     ELSE /\ UNCHANGED <<conversationHistories, args, loc, resp>>
          /\ pc' = [pc EXCEPT ![r] = "unhandled"]
  /\ UNCHANGED <<variant, dbVars, connVars>>

\* Variant of the second completion's continuation that records the
\* exchange only when the operation reported no error.
AgentAnsweredRecordingSuccesses(r, ok) ==
  /\ pc[r] = "agent_respond"
  /\ IF ok
     THEN /\ conversationHistories' =
               IF loc[r].result.error = NoStr
               THEN Appended(r, TRUE) ELSE conversationHistories
          /\ Respond(r, OkResp("agent", 200, args[r].tool, loc[r].result))
     ELSE /\ UNCHANGED conversationHistories
          /\ Respond(r, ErrorResp("agent", 500, "Internal Server Error"))
  /\ UNCHANGED <<variant, dbVars, connVars>>

\* The second completion resolves (ok): the exchange is appended to the
\* session's history and the envelope sent; or it rejects: 500.
AgentAnswered(r, ok) ==
  /\ pc[r] = "agent_respond"
  /\ IF ok
     THEN /\ conversationHistories' = Appended(r, TRUE)
          /\ Respond(r, OkResp("agent", 200, args[r].tool, loc[r].result))
     ELSE /\ UNCHANGED conversationHistories
          /\ Respond(r, ErrorResp("agent", 500, "Internal Server Error"))
  /\ UNCHANGED <<variant, dbVars, connVars>>

\* ------------------------------------------------------- specifications
Init ==
  /\ variant \in {"minimal", "full"}
  /\ store = <<>>
  /\ nextId = 1
  /\ isConnected = FALSE
  /\ connections = 0
  /\ conversationHistories = [s \in SessionIds |-> NoHistory]
  /\ pc = [r \in Slots |-> "idle"]
  /\ args = [r \in Slots |-> NoArgs]
  /\ loc = [r \in Slots |-> NoLoc]
  /\ resp = [r \in Slots |-> NoResp]

\* The status values requests carry: the handlers only ever test
\* status = 'scheduled', so 'cancelled' stands for both other values.
StatusInputs == {"scheduled", "cancelled"}

\* Bodies of POST /api/meetings: any pair of date fields, and a body lacking
\* the title or the organizer.
CreateBodies ==
  {[NoArgs EXCEPT !.title = "T1", !.organizer = "org", !.startTime = s,
                  !.endTime = e] : s \in DateInputs, e \in DateInputs}
  \cup {[NoArgs EXCEPT !.organizer = "org", !.startTime = 0, !.endTime = 1],
        [NoArgs EXCEPT !.title = "T1", !.startTime = 0, !.endTime = 1]}

\* Bodies of PUT /api/meetings/:id: any pair of date fields, or a status.
UpdateBodies ==
  {[NoArgs EXCEPT !.id = i, !.startTime = s, !.endTime = e] :
     i \in Ids, s \in DateInputs, e \in DateInputs}
  \cup {[NoArgs EXCEPT !.id = i, !.status = st] :
          i \in Ids, st \in StatusInputs}
  \cup {[NoArgs EXCEPT !.id = BadId, !.status = "cancelled"]}

\* The arguments of a tool call: the fields its schema requires are present.
CreateArgs ==
  {[NoArgs EXCEPT !.title = "T1", !.organizer = "org", !.startTime = s,
                  !.endTime = e, !.forceCreate = f] :
     s \in Times \cup {BadDate}, e \in Times \cup {BadDate}, f \in BOOLEAN}

DeleteArgs == {[NoArgs EXCEPT !.id = i] : i \in Ids \cup {BadId}}

ToolArgs(tool) ==
  CASE tool = "create_meeting" -> CreateArgs
    [] tool = "update_meeting" -> UpdateBodies
    [] tool = "delete_meeting" -> DeleteArgs
    [] OTHER -> {NoArgs}

\* One request at a time (slot 1): every handler runs to its response before
\* the next request starts.  The agent always chooses a tool here.
Next ==
  \/ \E b \in CreateBodies :
       RestCreateStart(1, b.title, b.description, b.startTime, b.endTime,
                       b.organizer)
  \/ RestCreateChecked(1)
  \/ RestCreateCreated(1)
  \/ \E b \in UpdateBodies :
       RestUpdateStart(1, b.id, b.title, b.description, b.startTime,
                       b.endTime, b.status)
  \/ RestUpdateLoaded(1)
  \/ RestUpdateChecked(1)
  \/ RestUpdateSaved(1)
  \/ \E i \in Ids \cup {BadId} : RestDeleteStart(1, i)
  \/ RestDeleted(1)
  \/ \E i \in Ids \cup {BadId} : RestGetStart(1, i)
  \/ RestGot(1)
  \/ \E q \in {NoStr, "q1"} : AgentStart(1, q, NoStr)
  \/ AgentConnected(1)
  \/ \E tool \in Tools \cup {"other_tool"} :
       \E fa \in ToolArgs(tool) : AgentInterpreted(1, TRUE, tool, fa)
  \/ AgentCreateChecked(1)
  \/ AgentCreateCreated(1)
  \/ AgentGot(1)
  \/ AgentUpdateLoaded(1)
  \/ AgentUpdateChecked(1)
  \/ AgentUpdateSaved(1)
  \/ AgentDeleted(1)
  \/ AgentAnswered(1, TRUE)
  \/ MongooseConnect(1, TRUE)

Spec == Init /\ [][Next]_vars

\* ------------------------------------------------------------ properties
\* The set of elements of a sequence.
Range(s) == {s[i] : i \in 1 .. Len(s)}

\* Slot r has just received the result of checkTimeConflict for a create
\* (nothing excluded) ...
CreateChecked(r) ==
  \/ pc[r] \in {"rest_create_insert", "agent_create_insert"}
  \/ pc[r] = "agent_respond" /\ loc[r].result.requiresConfirmation

\* ... or for an update (the updated meeting excluded).
UpdateChecked(r) ==
  /\ pc[r] \in {"rest_update_save", "agent_update_save"}
  /\ loc[r].start # NaN

Checked(r) == CreateChecked(r) \/ UpdateChecked(r)

\* The id the check of slot r excluded.
Excluded(r) == IF UpdateChecked(r) THEN loc[r].meeting.id ELSE NoId

\* hasConflict as the handler of slot r computed it.
ComputedHasConflict(r) ==
  IF pc[r] = "agent_respond" THEN loc[r].result.hasConflict
  ELSE loc[r].meeting.hasConflict

\* The stored meetings other than `self` whose interval strictly overlaps
\* [start, end).
Overlapping(start, end, self) ==
  {m \in Range(store) :
     m.id # self /\ m.startTime < end /\ m.endTime > start}

\* The stored meetings the detector has to report for [start, end): the
\* overlapping ones, only the scheduled ones under the fuller schema.
Expected(start, end, self) ==
  {m \in Overlapping(start, end, self) :
     variant = "full" => m.status = "scheduled"}

\* C1: the result of checkTimeConflict(start, end, excludeId) is exactly the
\* set of stored meetings m with m.startTime < end and m.endTime > start,
\* without the excluded meeting (and, under the fuller schema, only those
\* with status scheduled): none is missing, none is extra, none is repeated.
C1_DetectorExact ==
  \A r \in Slots :
    Checked(r) =>
      /\ loc[r].end > loc[r].start
      /\ Range(loc[r].conflicts) = Expected(loc[r].start, loc[r].end, Excluded(r))
      /\ Len(loc[r].conflicts) =
           Cardinality(Expected(loc[r].start, loc[r].end, Excluded(r)))

\* C1 witness: an update's check returned a meeting while the updated
\* meeting itself, which overlaps the new interval too, was left out.
C1_Witness ==
  \E r \in Slots :
    /\ UpdateChecked(r)
    /\ Len(loc[r].conflicts) > 0
    /\ \E m \in Range(store) :
         /\ m.id = loc[r].meeting.id
         /\ m.startTime < loc[r].end
         /\ m.endTime > loc[r].start

\* Some stored meeting other than `self` touches [start, end) at an endpoint.
Touching(start, end, self) ==
  \E m \in Range(store) :
    m.id # self /\ (m.endTime = start \/ m.startTime = end)

\* C2: a create or update whose interval touches a stored meeting at an
\* endpoint and overlaps no stored meeting gets hasConflict = false and an
\* empty conflict list.
C2_TouchingNeverConflicts ==
  \A r \in Slots :
    ( /\ Checked(r)
      /\ Touching(loc[r].start, loc[r].end, Excluded(r))
      /\ Overlapping(loc[r].start, loc[r].end, Excluded(r)) = {} )
    => /\ loc[r].conflicts = <<>>
       /\ ComputedHasConflict(r) = FALSE

\* C2 witness: an update to an interval that starts where another stored
\* meeting ends was checked and found free of conflicts.
C2_Witness ==
  \E r \in Slots :
    /\ UpdateChecked(r)
    /\ \E m \in Range(store) :
         m.id # loc[r].meeting.id /\ m.endTime = loc[r].start
    /\ loc[r].conflicts = <<>>
    /\ ~loc[r].meeting.hasConflict

\* The intervals present in a state: those of the stored meetings and the
\* parsed (start, end) of every request in flight, valid or not.
Intervals ==
  {[startTime |-> m.startTime, endTime |-> m.endTime] : m \in Range(store)}
  \cup {[startTime |-> ParseDate(args[r].startTime),
         endTime |-> ParseDate(args[r].endTime)] :
          r \in {q \in Slots : /\ ParseDate(args[q].startTime) # NaN
                               /\ ParseDate(args[q].endTime) # NaN}}

\* C3: the overlap predicate of the detector is symmetric, and every interval
\* with end > start overlaps itself.
C3_OverlapSymmetricReflexive ==
  \A A \in Intervals :
    /\ \A B \in Intervals :
         TimeOverlap(A, B.startTime, B.endTime)
           <=> TimeOverlap(B, A.startTime, A.endTime)
    /\ A.endTime > A.startTime => TimeOverlap(A, A.startTime, A.endTime)

\* C3 witness: a stored meeting and the interval of a request in flight
\* touch, and another pair of intervals in the state overlaps.
C3_Witness ==
  /\ \E A \in Intervals, B \in Intervals :
       /\ A.endTime = B.startTime
       /\ A.endTime > A.startTime
       /\ B.endTime > B.startTime
  /\ \E A \in Intervals, B \in Intervals :
       A # B /\ TimeOverlap(A, B.startTime, B.endTime)
  /\ \E r \in Slots : Checked(r)

\* C9: the check of an update never returns the updated meeting itself, and
\* an update to an interval that overlaps no other stored meeting gets
\* hasConflict = false, also when it overlaps the meeting's own stored
\* interval.
C9_UpdateExcludesSelf ==
  \A r \in Slots :
    UpdateChecked(r) =>
      /\ \A i \in 1 .. Len(loc[r].conflicts) :
           loc[r].conflicts[i].id # loc[r].meeting.id
      /\ Overlapping(loc[r].start, loc[r].end, loc[r].meeting.id) = {}
           => ~loc[r].meeting.hasConflict

\* C9 witness: the new interval overlaps the stored interval of the updated
\* meeting, and the update got hasConflict = false.
C9_Witness ==
  \E r \in Slots :
    /\ UpdateChecked(r)
    /\ loc[r].loaded \in Range(store)
    /\ loc[r].loaded.startTime < loc[r].end
    /\ loc[r].loaded.endTime > loc[r].start
    /\ ~loc[r].meeting.hasConflict

\* --------------------------------------------------------------- C4
EndError == "endTime must be after startTime"

\* Slot r handles a create whose two dates are valid and whose end is not
\* after its start.
BadCreate(r) ==
  /\ \/ args[r].op = "rest_create"
     \/ args[r].op = "agent" /\ args[r].tool = "create_meeting"
  /\ args[r].startTime \in Times
  /\ args[r].endTime \in Times
  /\ args[r].endTime <= args[r].startTime

\* What every step taken while slot r handles such a create satisfies.
RejectedCreateStep(r) ==
  /\ store' = store
  /\ nextId' = nextId
  /\ pc'[r] \notin {"rest_create_insert", "agent_create_check",
                    "agent_create_insert"}
  /\ loc'[r].conflicts = <<>>
  /\ args[r].op = "rest_create" =>
       /\ pc[r] \in {"connecting", "connected"}
       /\ pc[r] = "connected" =>
            /\ pc'[r] = "done"
            /\ resp'[r] = ErrorResp("rest_create", 400, EndError)
  /\ args[r].op = "agent" =>
       /\ pc[r] = "agent_respond"
       /\ loc[r].result = [NoResult EXCEPT !.error = EndError]
       /\ pc'[r] = "done"
       /\ resp'[r].code = 200 => resp'[r].result = loc[r].result

\* C4: a create (REST or agent) whose endTime <= startTime is answered with
\* the validation error "endTime must be after startTime"; while it is
\* handled no step changes the store, no conflict check is started and no
\* insert is reached.
C4_BadIntervalRejectedBeforeWrite ==
  [][\A r \in Slots : BadCreate(r) => RejectedCreateStep(r)]_vars

\* C4 witness: a REST create with endTime <= startTime was answered 400 with
\* the validation error while a meeting is stored.
C4_Witness ==
  /\ pc[1] = "done"
  /\ resp[1] = ErrorResp("rest_create", 400, EndError)
  /\ Len(store) > 0

\* --------------------------------------------------------------- C5
\* Slot r has answered 201 to a REST create.
RestCreated(r) ==
  /\ pc[r] = "done"
  /\ resp[r].op = "rest_create"
  /\ resp[r].code = 201

\* The 201 response of slot r reports exactly the meetings `others`: M is
\* stored as returned, flagged iff there are any, and `conflicts` lists each
\* of them once.
ReportsExactly(r, others) ==
  LET M == resp[r].result.meeting
      conflicts == resp[r].result.conflicts
  IN /\ M \in Range(store)
     /\ M.hasConflict = (others # {})
     /\ Range(conflicts) = {m.id : m \in others}
     /\ Len(conflicts) = Cardinality(others)

\* C5 as stated: a sequential REST create of M stores M with hasConflict =
\* true and returns exactly the already-stored meetings overlapping M when
\* there are any, and stores M with hasConflict = false and reports nothing
\* when there are none.
C5_Original ==
  \A r \in Slots :
    RestCreated(r) =>
      LET M == resp[r].result.meeting
      IN ReportsExactly(r, Overlapping(M.startTime, M.endTime, M.id))

\* C5 amended: the same, where under the fuller schema only the overlapping
\* meetings with status scheduled count.
C5_Amended ==
  \A r \in Slots :
    RestCreated(r) =>
      LET M == resp[r].result.meeting
      IN ReportsExactly(r, Expected(M.startTime, M.endTime, M.id))

\* C5 witness: under the fuller schema a REST create was answered 201 with
\* hasConflict = true and one conflict listed.
C5_Witness ==
  /\ variant = "full"
  /\ RestCreated(1)
  /\ resp[1].result.meeting.hasConflict
  /\ Len(resp[1].result.conflicts) = 1

\* --------------------------------------------------------------- C6
\* Slot r runs create_meeting on the session-aware server and is about to
\* receive the result of its conflict check.
GateCheck(r) ==
  /\ variant = "minimal"
  /\ pc[r] = "agent_create_check"

\* The create of slot r overlaps a stored meeting.
CreateOverlaps(r) == Overlapping(loc[r].start, loc[r].end, NoId) # {}

\* The step of slot r out of the conflict check and the steps after it, for
\* a conflicting create that is not forced: nothing is stored and the result
\* sent back carries requiresConfirmation = true.
ConfirmationStep(r) ==
  /\ (GateCheck(r) /\ CreateOverlaps(r) /\ ~args[r].forceCreate) =>
       /\ store' = store
       /\ nextId' = nextId
       /\ pc'[r] = "agent_respond"
       /\ loc'[r].result.requiresConfirmation
       /\ loc'[r].result.meeting = NoDoc
  /\ ( /\ variant = "minimal"
       /\ pc[r] = "agent_respond"
       /\ loc[r].result.requiresConfirmation ) =>
       /\ store' = store
       /\ nextId' = nextId
       /\ pc'[r] = "done"
       /\ resp'[r].code = 200 => resp'[r].result.requiresConfirmation

\* The steps of a forced create of slot r: the check sends it on to the
\* insert whatever it found, the insert appends exactly one meeting with the
\* requested interval, and the answer changes nothing more.
ForcedCreateStep(r) ==
  /\ (GateCheck(r) /\ args[r].forceCreate) =>
       /\ store' = store
       /\ pc'[r] = "agent_create_insert"
  /\ ( /\ variant = "minimal"
       /\ pc[r] = "agent_create_insert"
       /\ args[r].forceCreate ) =>
       /\ Len(store') = Len(store) + 1
       /\ SubSeq(store', 1, Len(store)) = store
       /\ store'[Len(store')].startTime = loc[r].start
       /\ store'[Len(store')].endTime = loc[r].end
       /\ pc'[r] = "agent_respond"
       /\ ~loc'[r].result.requiresConfirmation
  /\ ( /\ variant = "minimal"
       /\ pc[r] = "agent_respond"
       /\ args[r].tool = "create_meeting"
       /\ args[r].forceCreate ) =>
       store' = store

\* C6: on the session-aware server an agent create_meeting that overlaps a
\* stored meeting and does not set forceCreate returns requiresConfirmation =
\* true and leaves the store unchanged; a create_meeting with forceCreate =
\* true (so also the one that follows for the same interval) adds exactly
\* one meeting.
C6_ConfirmationGate ==
  [][\A r \in Slots : ConfirmationStep(r) /\ ForcedCreateStep(r)]_vars

\* C6 witness: on the server with the gate a create that overlaps the one
\* stored meeting and is not forced has been stopped: its result asks for
\* confirmation and lists that meeting, and the store still holds only it.
C6_Witness ==
  /\ variant = "minimal"
  /\ pc[1] = "agent_respond"
  /\ args[1].tool = "create_meeting"
  /\ ~args[1].forceCreate
  /\ loc[1].result.requiresConfirmation
  /\ Len(store) = 1
  /\ loc[1].result.conflicts = <<store[1].id>>
  /\ TimeOverlap(store[1], loc[1].start, loc[1].end)

\* --------------------------------------------------------------- C8
\* Slot r is about to save an update that supplied a time, and the save
\* will succeed.
TimedSave(r) ==
  /\ UpdateChecked(r)
  /\ ~SaveFails(store, loc[r].meeting, loc[r].loaded)

\* After the save of slot r the stored meeting has the new interval, its
\* hasConflict says whether `others` is empty, and under the fuller schema
\* its conflictDetails is set (for that many meetings) iff hasConflict.
SavedWith(r, others) ==
  LET m == FindById(store', loc[r].meeting.id)
  IN /\ m.startTime = loc[r].start
     /\ m.endTime = loc[r].end
     /\ m.hasConflict = (others # {})
     /\ variant = "full" =>
          /\ (m.conflictDetails # NoDetails) = (others # {})
          /\ m.conflictDetails.n = Cardinality(others)
     /\ variant = "minimal" => m.conflictDetails = NoDetails

\* C8 as stated: an update that supplies startTime and/or endTime stores
\* hasConflict = true and recomputed conflictDetails when the new interval
\* overlaps another stored meeting, and hasConflict = false and no
\* conflictDetails when it overlaps none, whatever the flag was before.
C8_Original ==
  [][\A r \in Slots :
       (TimedSave(r) /\ pc'[r] # pc[r]) =>
         SavedWith(r, Overlapping(loc[r].start, loc[r].end,
                                  loc[r].meeting.id))]_vars

\* C8 amended: the same, where under the fuller schema only the other
\* meetings with status scheduled count as overlapping.
C8_Amended ==
  [][\A r \in Slots :
       (TimedSave(r) /\ pc'[r] # pc[r]) =>
         SavedWith(r, Expected(loc[r].start, loc[r].end,
                               loc[r].meeting.id))]_vars

\* C8 witness: under the fuller schema an agent update has saved a meeting
\* that was flagged with details before and is stored unflagged and without
\* details now.
C8_Witness ==
  /\ variant = "full"
  /\ pc[1] = "agent_respond"
  /\ args[1].tool = "update_meeting"
  /\ loc[1].start # NaN
  /\ loc[1].loaded.hasConflict
  /\ loc[1].loaded.conflictDetails # NoDetails
  /\ loc[1].meeting \in Range(store)
  /\ ~loc[1].meeting.hasConflict
  /\ loc[1].meeting.conflictDetails = NoDetails

\* --------------------------------------------------------------- C7
\* Bodies of concurrent PUT requests: one date field each, moving the start
\* or the end of a meeting to an instant inside the longest interval.
RaceBodies ==
  {[NoArgs EXCEPT !.id = i, !.startTime = 1] : i \in Ids}
  \cup {[NoArgs EXCEPT !.id = i, !.endTime = 1] : i \in Ids}

\* Two requests in flight at once (both slots): REST creates of the longest
\* interval and REST updates of one date field, their segments interleaved
\* in every order the event loop allows.
NextRace ==
  \E r \in Slots :
    \/ RestCreateStart(r, "T1", NoStr, 0, MaxTime, "org")
    \/ RestCreateChecked(r)
    \/ RestCreateCreated(r)
    \/ \E b \in RaceBodies :
         RestUpdateStart(r, b.id, b.title, b.description, b.startTime,
                         b.endTime, b.status)
    \/ RestUpdateLoaded(r)
    \/ RestUpdateChecked(r)
    \/ RestUpdateSaved(r)
    \/ MongooseConnect(r, TRUE)

SpecRace == Init /\ [][NextRace]_vars

\* C7 as stated: after any sequence of create and update requests, also
\* when concurrent requests on one meeting interleave, every stored meeting
\* has endTime > startTime.
C7_StoredIntervalsValid ==
  \A m \in Range(store) : m.endTime > m.startTime

\* -------------------------------------------------------------- C10
\* What the intent service answers in the history runs: no tool, a tool that
\* reads, or a name that is no tool.
HistoryTools == {"none", "get_meetings", "other_tool"}

InitHistory == Init /\ variant = "minimal"

\* The session-aware server, one request at a time: agent requests for the
\* default session and for session s1, with and without a tool call, either
\* completion failing or not, and clear-history requests.
NextHistory ==
  \/ \E q \in {NoStr, "q1"}, sid \in {NoStr, "s1"} : AgentStart(1, q, sid)
  \/ AgentConnected(1)
  \/ \E ok \in BOOLEAN, tool \in HistoryTools :
       AgentInterpreted(1, ok, tool, NoArgs)
  \/ AgentGot(1)
  \/ \E ok \in BOOLEAN : AgentAnswered(1, ok)
  \/ \E sid \in {NoStr, "default", "s1"} : ClearHistory(1, sid)
  \/ \E ok \in BOOLEAN : MongooseConnect(1, ok)

SpecHistory == InitHistory /\ [][NextHistory]_vars

\* C10: for every session id the stored history has at most 9 entries,
\* whatever addToHistory calls (with or without a tool call) came before.
C10_HistoryAtMostNine ==
  \A sid \in SessionIds :
    Len(conversationHistories[sid].history) <= 9

\* C10 witness: a session holds 9 entries that do not start with a user
\* turn: an append went past the cap and the oldest entries were dropped.
C10_Witness ==
  \E sid \in SessionIds :
    /\ Len(conversationHistories[sid].history) = 9
    /\ conversationHistories[sid].history[1].role # "user"

\* -------------------------------------------------------------- C11
\* What a later getConversationHistory(sessionId) returns in the next state.
LaterGet(sessionId) ==
  GetConversationHistory(conversationHistories', sessionId)[sessionId].history

\* C11: a clear-history request for session S leaves S without entries (a
\* later get for S returns the empty history) and every other session as it
\* was; a clear-history request without sessionId is answered 400 and
\* changes no session.
C11_ClearOnlyThatSession ==
  [][\A r \in Slots :
       /\ \A S \in SessionIds :
            ClearHistory(r, S) =>
              /\ resp'[r].code = 200
              /\ Len(conversationHistories'[S].history) = 0
              /\ LaterGet(S) = <<>>
              /\ \A other \in SessionIds \ {S} :
                   conversationHistories'[other] = conversationHistories[other]
       /\ ClearHistory(r, NoStr) =>
            /\ resp'[r] = ErrorResp("clear", 400, "sessionId is required")
            /\ conversationHistories' = conversationHistories]_vars

\* C11 witness: the default session was cleared while session s1 holds
\* entries.
C11_Witness ==
  /\ pc[1] = "done"
  /\ resp[1].op = "clear"
  /\ resp[1].code = 200
  /\ ~conversationHistories["default"].present
  /\ Len(conversationHistories["s1"].history) > 0

\* ------------------------------------------------------ C12 and C14
\* Bodies of updates that may carry the non-time attributes (title,
\* description and status together) next to any pair of date fields.
FieldBodies ==
  {[NoArgs EXCEPT !.id = i, !.title = t[1], !.description = t[2],
                  !.status = t[3], !.startTime = s, !.endTime = e] :
     i \in Ids,
     t \in {<<NoStr, NoStr, NoStr>>, <<"T2", "D2", "cancelled">>},
     s \in Times \cup {UndefDate}, e \in Times \cup {UndefDate}}

\* One request at a time: REST creates of valid intervals, and REST and
\* agent updates with the bodies above.
NextUpdate ==
  \/ \E s \in Times, e \in Times :
       s < e /\ RestCreateStart(1, "T1", NoStr, s, e, "org")
  \/ RestCreateChecked(1)
  \/ RestCreateCreated(1)
  \/ \E b \in FieldBodies :
       RestUpdateStart(1, b.id, b.title, b.description, b.startTime,
                       b.endTime, b.status)
  \/ RestUpdateLoaded(1)
  \/ RestUpdateChecked(1)
  \/ RestUpdateSaved(1)
  \/ AgentStart(1, "q1", NoStr)
  \/ AgentConnected(1)
  \/ \E fa \in FieldBodies : AgentInterpreted(1, TRUE, "update_meeting", fa)
  \/ AgentUpdateLoaded(1)
  \/ AgentUpdateChecked(1)
  \/ AgentUpdateSaved(1)
  \/ AgentAnswered(1, TRUE)
  \/ MongooseConnect(1, TRUE)

SpecUpdate == Init /\ [][NextUpdate]_vars

\* -------------------------------------------------------------- C12
\* Slot r handles an update (REST or agent).
Updating(r) ==
  \/ args[r].op = "rest_update"
  \/ args[r].op = "agent" /\ args[r].tool = "update_meeting"

\* Slot r handles an update that supplies neither startTime nor endTime.
NoTimeUpdate(r) ==
  /\ Updating(r)
  /\ args[r].startTime = UndefDate
  /\ args[r].endTime = UndefDate

\* The step of slot r is the completion of its save.
SaveStep(r) ==
  /\ pc[r] \in {"rest_update_save", "agent_update_save"}
  /\ pc'[r] # pc[r]

\* The value an update leaves in a non-time attribute.
Supplied(value, old) == IF value # NoStr THEN value ELSE old

\* The save of slot r changes only the supplied non-time attributes of the
\* addressed meeting, and no other meeting.
OnlyFieldsChange(r) ==
  LET old == FindById(store, args[r].id)
      new == FindById(store', args[r].id)
  IN /\ old # NoDoc
     /\ new.startTime = old.startTime
     /\ new.endTime = old.endTime
     /\ new.hasConflict = old.hasConflict
     /\ new.conflictDetails = old.conflictDetails
     /\ new.title = Supplied(args[r].title, old.title)
     /\ new.description = Supplied(args[r].description, old.description)
     /\ new.status = IF variant = "full"
                     THEN Supplied(args[r].status, old.status)
                     ELSE old.status
     /\ Len(store') = Len(store)
     /\ \A i \in 1 .. Len(store) :
          store[i].id # args[r].id => store'[i] = store[i]

\* C12: an update that supplies neither startTime nor endTime runs no
\* conflict check, and its save leaves startTime, endTime, hasConflict and
\* conflictDetails of the meeting as they were and changes only the
\* supplied non-time attributes; no other step of the request changes the
\* store.
C12_NoTimeUpdateKeepsConflictState ==
  [][\A r \in Slots :
       NoTimeUpdate(r) =>
         /\ pc'[r] \notin {"rest_update_check", "agent_update_check"}
         /\ loc'[r].conflicts = <<>>
         /\ IF SaveStep(r) THEN OnlyFieldsChange(r) ELSE store' = store]_vars

\* C12 witness: an agent update that supplied only title, description and
\* status has been saved on a meeting flagged as conflicting: the stored
\* meeting has the new title and is still flagged.
C12_Witness ==
  /\ pc[1] = "agent_respond"
  /\ NoTimeUpdate(1)
  /\ args[1].title = "T2"
  /\ loc[1].result.success = "true"
  /\ FindById(store, args[1].id).title = "T2"
  /\ FindById(store, args[1].id).hasConflict
  /\ loc[1].loaded.title = "T1"

\* -------------------------------------------------------------- C13
\* A result that asks for confirmation, in flight or sent, belongs to a
\* create_meeting call.
OnlyCreateAsksConfirmation ==
  \A r \in Slots :
    /\ loc[r].result.requiresConfirmation =>
         args[r].op = "agent" /\ args[r].tool = "create_meeting"
    /\ resp[r].result.requiresConfirmation =>
         resp[r].op = "agent" /\ resp[r].action = "create_meeting"

\* Slot r updates a meeting to a valid interval and the check found that
\* it overlaps other stored meetings.
ConflictingUpdate(r) ==
  /\ UpdateChecked(r)
  /\ loc[r].end > loc[r].start
  /\ loc[r].meeting.hasConflict

\* The save of such an update stores the new interval and the request goes
\* on to its success answer.
Committed(r) ==
  LET new == FindById(store', loc[r].meeting.id)
  IN /\ new.startTime = loc[r].start
     /\ new.endTime = loc[r].end
     /\ new.hasConflict
     /\ \/ /\ pc'[r] = "done"
           /\ resp'[r].code = 200
           /\ resp'[r].result.meeting = new
        \/ /\ pc'[r] = "agent_respond"
           /\ loc'[r].result.success = "true"
           /\ loc'[r].result.meeting = new

\* C13: an update (REST or agent) of an existing meeting to a valid
\* interval that overlaps other stored meetings goes from the check to the
\* save and is committed, and only a create_meeting result ever carries
\* requiresConfirmation.
C13_UpdatesAlwaysProceed ==
  /\ []OnlyCreateAsksConfirmation
  /\ [][\A r \in Slots :
         /\ pc[r] = "rest_update_check" => pc'[r] = "rest_update_save"
         /\ pc[r] = "agent_update_check" => pc'[r] = "agent_update_save"
         /\ (ConflictingUpdate(r) /\ SaveStep(r)) => Committed(r)]_vars

\* C13 witness: on the server with the confirmation gate an agent update
\* moved a meeting onto another one: the new interval is stored, flagged,
\* and the result reports success.
C13_Witness ==
  /\ variant = "minimal"
  /\ pc[1] = "agent_respond"
  /\ args[1].tool = "update_meeting"
  /\ loc[1].conflicts # <<>>
  /\ loc[1].loaded.startTime # loc[1].start
  /\ loc[1].result.success = "true"
  /\ FindById(store, args[1].id).startTime = loc[1].start
  /\ FindById(store, args[1].id).hasConflict

\* -------------------------------------------------------------- C14
\* Slot r is at the point where its update learns what findById returned.
UpdateLoads(r) ==
  \/ pc[r] = "connected" /\ args[r].op = "rest_update"
  \/ pc[r] = "agent_update_load"

\* The interval an update of slot r results in: each supplied date, and the
\* stored date of the addressed meeting for a date that is not supplied.
ResultingStart(r) ==
  IF args[r].startTime \in Times THEN args[r].startTime
  ELSE FindById(store, args[r].id).startTime

ResultingEnd(r) ==
  IF args[r].endTime \in Times THEN args[r].endTime
  ELSE FindById(store, args[r].id).endTime

\* The update of slot r supplies a date and results in endTime <= startTime
\* on a stored meeting.
BadUpdate(r) ==
  /\ Updating(r)
  /\ args[r].startTime \in Times \/ args[r].endTime \in Times
  /\ FindById(store, args[r].id) # NoDoc
  /\ ResultingEnd(r) <= ResultingStart(r)

\* The update of slot r supplies both dates, with endTime <= startTime.
BadUpdateBody(r) ==
  /\ Updating(r)
  /\ args[r].startTime \in Times
  /\ args[r].endTime \in Times
  /\ args[r].endTime <= args[r].startTime

\* The step of slot r ends in the validation error: 400 on the REST
\* endpoint, a result-level error in the agent; nothing is stored and no
\* conflict check is started.
ValidationError(r) ==
  /\ store' = store
  /\ loc'[r].conflicts = <<>>
  /\ IF args[r].op = "rest_update"
     THEN /\ pc'[r] = "done"
          /\ resp'[r] = ErrorResp("rest_update", 400, EndError)
     ELSE /\ pc'[r] = "agent_respond"
          /\ loc'[r].result =
               [NoResult EXCEPT !.success = "false", !.error = EndError]

\* After the validation error of an agent update the answer changes nothing.
AnswerKeepsStore(r) ==
  ( /\ pc[r] = "agent_respond"
    /\ args[r].tool = "update_meeting"
    /\ loc[r].result.error = EndError ) => store' = store

UnknownOperation(a) ==
  /\ a.op = "agent"
  /\ a.tool \notin Tools \cup {NoStr}

\* C15: when the intent service names an operation that is none of
\* create_meeting, get_meetings, update_meeting, delete_meeting, the agent
\* goes from the first completion straight to the second one with the
\* result { error: 'Unknown function' }, without any store call in between
\* and without changing the store, and answers 200 with success = true and
\* that result.
C15_UnknownOperation ==
  [][\A r \in Slots :
       /\ (pc[r] = "agent_interpret" /\ UnknownOperation(args'[r])) =>
            /\ pc'[r] = "agent_respond"
            /\ loc'[r].result.error = "Unknown function"
            /\ loc'[r].result.meeting = NoDoc
            /\ store' = store
       /\ UnknownOperation(args[r]) =>
            /\ pc[r] = "agent_respond"
            /\ store' = store
            /\ pc'[r] = "done"
            /\ resp'[r].code = 200
            /\ resp'[r].success
            /\ resp'[r].action = args[r].tool
            /\ resp'[r].result.error = "Unknown function"
            /\ resp'[r].result.success # "true"]_vars

\* C15 witness: with a meeting stored, a request whose operation name was
\* unknown has been answered 200 with the result-level error.
C15_Witness ==
  /\ pc[1] = "done"
  /\ resp[1].code = 200
  /\ resp[1].action = "other_tool"
  /\ resp[1].result.error = "Unknown function"
  /\ Len(store) > 0

\* -------------------------------------------------------------- C16
\* Slot r has sent a response whose result asks for confirmation.
PendingConfirmation(r) ==
  /\ pc[r] = "done"
  /\ resp[r].result.requiresConfirmation

\* C16 as stated: the pending-confirmation outcome is returned with success
\* = true and requiresConfirmation = true, and nothing in it reports a
\* failure.
C16_Original ==
  \A r \in Slots :
    PendingConfirmation(r) =>
      /\ resp[r].code = 200
      /\ resp[r].success
      /\ resp[r].result.success # "false"

\* C16 amended: the pending-confirmation outcome is returned in a 200
\* envelope whose own success is true; the result inside it carries
\* requiresConfirmation = true and hasConflict = true together with
\* success = false, the conflicting meetings and the proposed meeting.
C16_Amended ==
  \A r \in Slots :
    PendingConfirmation(r) =>
      /\ resp[r].code = 200
      /\ resp[r].success
      /\ resp[r].action = "create_meeting"
      /\ resp[r].result.success = "false"
      /\ resp[r].result.hasConflict
      /\ resp[r].result.conflicts # <<>>
      /\ resp[r].result.proposedMeeting # NoDoc
      /\ resp[r].result.meeting = NoDoc

\* C16 witness: a conflicting create that was not forced has been answered
\* with the pending-confirmation result, the one stored meeting listed.
C16_Witness ==
  /\ PendingConfirmation(1)
  /\ Len(store) = 1
  /\ resp[1].result.conflicts = <<store[1].id>>

\* ------------------------------------------------------ C17 and C18
\* The step of slot r is the one that calls addToHistory without a tool
\* (the first completion chose none) ...
PlainAppend(r) ==
  /\ pc[r] = "agent_interpret"
  /\ pc'[r] = "done"
  /\ resp'[r].code = 200

\* ... or with a tool (the second completion resolved).
ToolAppend(r) ==
  /\ pc[r] = "agent_respond"
  /\ pc'[r] = "done"
  /\ resp'[r].code = 200

\* The records of one exchange about query q.
UserTurn(q) == [role |-> "user", tool_calls |-> FALSE, query |-> q]
PlainReply(q) == [role |-> "assistant", tool_calls |-> FALSE, query |-> q]
Invocation(q) == [role |-> "assistant", tool_calls |-> TRUE, query |-> q]
ToolResult(q) == [role |-> "tool", tool_calls |-> FALSE, query |-> q]

\* What the append of slot r has to add.
Exchange(r) ==
  IF ToolAppend(r)
  THEN <<UserTurn(args[r].query), Invocation(args[r].query),
         ToolResult(args[r].query)>>
  ELSE <<UserTurn(args[r].query), PlainReply(args[r].query)>>

\* The session's history before and after the step of slot r.
Before(r) == conversationHistories[loc[r].session].history
After(r) == conversationHistories'[loc[r].session].history

\* C17: an addToHistory call appends the user turn and then one plain
\* assistant record (no tool), or an assistant invocation record followed
\* by one tool-result record (tool): the stored history ends with exactly
\* these 2 or 3 records in this order, and as long as the cap is not
\* passed it is the previous history with these records added.
C17_AppendedRecords ==
  [][\A r \in Slots :
       (PlainAppend(r) \/ ToolAppend(r)) =>
         LET k == Len(Exchange(r))
             n == Len(After(r))
         IN /\ k = IF ToolAppend(r) THEN 3 ELSE 2
            /\ n >= k
            /\ SubSeq(After(r), n - k + 1, n) = Exchange(r)
            /\ Len(Before(r)) + k <= 9 =>
                 After(r) = Before(r) \o Exchange(r)]_vars

\* C17 witness: a session holds a plain exchange followed by an exchange
\* with a tool: five records.
C17_Witness ==
  \E sid \in SessionIds :
    LET h == conversationHistories[sid].history
    IN /\ Len(h) = 5
       /\ h[1].role = "user"
       /\ h[2] = PlainReply(h[1].query)
       /\ h[3].role = "user"
       /\ h[4] = Invocation(h[3].query)
       /\ h[5] = ToolResult(h[3].query)

\* The smaller of two numbers.
Min(a, b) == IF a < b THEN a ELSE b

\* The last k entries of a sequence.
LastEntries(h, k) == SubSeq(h, Len(h) - k + 1, Len(h))

\* C18: after an append the stored history is the last min(9, n) entries,
\* in their order, of the previous history followed by the appended
\* records, n being the length of that sequence.
C18_KeepsMostRecent ==
  [][\A r \in Slots :
       (PlainAppend(r) \/ ToolAppend(r)) =>
         LET all == Before(r) \o Exchange(r)
         IN After(r) = LastEntries(all, Min(9, Len(all)))]_vars

\* C18 witness: a session holds 9 records that start with a tool-result
\* record and end with a plain reply: the oldest records of an exchange
\* were dropped when a plain exchange was appended.
C18_Witness ==
  \E sid \in SessionIds :
    LET h == conversationHistories[sid].history
    IN /\ Len(h) = 9
       /\ h[1].role = "tool"
       /\ h[9] = PlainReply(h[8].query)

\* -------------------------------------------------------------- C19
\* C19 as stated: connectToDatabase caches the connection; over any
\* interleaving of concurrent callers mongoose.connect establishes at most
\* one connection in the lifetime of the process.
C19_AtMostOneConnection ==
  connections <= 1

\* -------------------------------------------------------------- C20
\* Ids are handed out in increasing order and every id below nextId was
\* inserted, so an id below nextId that is not stored was deleted.
Deleted(id) == id < nextId /\ id \notin StoreIds(store)

\* The step of slot r is a delete that reports success.
DeleteSucceeds(r) ==
  \/ /\ pc[r] = "connected"
     /\ args[r].op = "rest_delete"
     /\ resp'[r].code = 200
  \/ /\ pc[r] = "agent_delete"
     /\ loc'[r].result.success = "true"

\* The step of slot r is the database read of a REST get, update or delete
\* addressed to id ...
RestReads(r, id) ==
  /\ pc[r] = "connected"
  /\ args[r].op \in {"rest_get", "rest_update", "rest_delete"}
  /\ args[r].id = id

\* ... or of the agent's update_meeting or delete_meeting.
AgentReads(r, id) ==
  /\ pc[r] \in {"agent_update_load", "agent_delete"}
  /\ args[r].id = id

\* The step of slot r touches the database (the agent's last step only
\* sends the result an earlier step obtained).
DatabaseStep(r) == pc[r] # "agent_respond"

\* The ids of the documents slot r holds or has sent after the step.
SeenIds(r) ==
  {loc'[r].conflicts[i].id : i \in 1 .. Len(loc'[r].conflicts)}
  \cup {loc'[r].result.conflicts[i] : i \in 1 .. Len(loc'[r].result.conflicts)}
  \cup {resp'[r].result.conflicts[i] : i \in 1 .. Len(resp'[r].result.conflicts)}
  \cup {loc'[r].meeting.id, loc'[r].loaded.id, loc'[r].result.meeting.id,
        resp'[r].result.meeting.id}

\* C20: deletion is permanent.  A delete that reports success removes the
\* meeting; a deleted id never comes back into the store; no read that
\* resolves after the deletion (find, findById, the conflict check) returns
\* it; and a later get, update or delete addressed to it reports
\* "Meeting not found" without writing.
C20_DeletionPermanent ==
  [][\A r \in Slots : \A id \in Ids :
       /\ DeleteSucceeds(r) /\ args[r].id = id => Deleted(id)'
       /\ Deleted(id) =>
            /\ Deleted(id)'
            /\ DatabaseStep(r) => id \notin SeenIds(r)
            /\ loc'[r].result.count <= Len(store)
            /\ RestReads(r, id) =>
                 /\ resp'[r] = ErrorResp(args[r].op, 404, "Meeting not found")
                 /\ store' = store
            /\ AgentReads(r, id) =>
                 /\ loc'[r].result.success = "false"
                 /\ loc'[r].result.error = "Meeting not found"
                 /\ store' = store]_vars

\* C20 witness: meeting 1 was deleted, meeting 2 was created afterwards and
\* is the only one stored, and the last request, a get of meeting 1, was
\* answered 404.
C20_Witness ==
  /\ nextId = 3
  /\ StoreIds(store) = {2}
  /\ Deleted(1)
  /\ resp[1] = ErrorResp("rest_get", 404, "Meeting not found")

\* -------------------------------------------------------------- C21
\* Slot r reports "not found" on this step: 404 with error 'Meeting not
\* found' on a REST endpoint, a result {success: false, error: 'Meeting not
\* found'} handed to the second completion through the agent.
NotFoundOutcome(r) ==
  IF args[r].op = "agent"
  THEN /\ pc'[r] = "agent_respond"
       /\ loc'[r].result.success = "false"
       /\ loc'[r].result.error = "Meeting not found"
  ELSE resp'[r] = ErrorResp(args[r].op, 404, "Meeting not found")

\* The step of slot r is the database read of a get, update or delete
\* addressed to id, and no stored meeting has that id.
ReadsUnknown(r, id) ==
  /\ RestReads(r, id) \/ AgentReads(r, id)
  /\ id \notin StoreIds(store)

\* C21 as stated: a get, update or delete addressed to an id that is not in
\* the store reports not found (404 / error 'Meeting not found'), which is
\* neither the validation error (400) nor the store failure (500), and
\* leaves the store unchanged.
C21_UnknownIdNotFound ==
  [][\A r \in Slots : \A id \in Ids \cup {BadId} :
       ReadsUnknown(r, id) => NotFoundOutcome(r) /\ store' = store]_vars

\* The same for ids that are well-formed ObjectIds.
WellFormedUnknownIdNotFound ==
  [][\A r \in Slots : \A id \in Ids :
       ReadsUnknown(r, id) => NotFoundOutcome(r) /\ store' = store]_vars

\* An id that is no ObjectId is answered like a store failure and the store
\* is left alone.
MalformedIdIsServerError ==
  [][\A r \in Slots :
       ReadsUnknown(r, BadId) =>
         /\ resp'[r] = ErrorResp(args[r].op, 500, "Internal Server Error")
         /\ store' = store]_vars

\* -------------------------------------------------------------- C22
\* Slot r handles a REST create with the required fields, two parseable
\* dates and endTime > startTime.
ValidCreate(r) ==
  /\ args[r].op = "rest_create"
  /\ args[r].title # NoStr
  /\ variant = "full" => args[r].organizer # NoStr
  /\ args[r].startTime \in Times
  /\ args[r].endTime \in Times
  /\ args[r].endTime > args[r].startTime

\* The stored meetings the detector reports for the create of slot r.
CreateConflicts(r) == Expected(args[r].startTime, args[r].endTime, NoId)

\* C22: a valid REST create always adds exactly one meeting, with the
\* requested interval, whether or not it overlaps stored meetings: after the
\* conflict check it goes on to the insertion, and the insertion appends one
\* document and answers 201; the overlap only decides hasConflict and the
\* reported conflicts.
C22_ValidCreateAlwaysAdds ==
  [][\A r \in Slots :
       ValidCreate(r) =>
         /\ pc[r] = "connected" =>
              /\ pc'[r] = "rest_create_insert"
              /\ store' = store
         /\ pc[r] = "rest_create_insert" =>
              LET M == resp'[r].result.meeting
              IN /\ resp'[r].code = 201
                 /\ resp'[r].success
                 /\ store' = Append(store, M)
                 /\ M.id \notin StoreIds(store)
                 /\ M.startTime = args[r].startTime
                 /\ M.endTime = args[r].endTime
                 /\ M.title = args[r].title
                 /\ M.hasConflict = (CreateConflicts(r) # {})
                 /\ Range(resp'[r].result.conflicts) =
                      {m.id : m \in CreateConflicts(r)}]_vars

\* C22 witness: a REST create overlapping the stored meeting was answered
\* 201 and its meeting, flagged, is the second one stored.
C22_Witness ==
  /\ RestCreated(1)
  /\ Len(store) = 2
  /\ store[2] = resp[1].result.meeting
  /\ store[2].hasConflict
  /\ store[1].startTime < store[2].endTime
  /\ store[1].endTime > store[2].startTime
  /\ resp[1].result.conflicts = <<store[1].id>>

\* -------------------------------------------------------------- C23
\* The first completion resolved without a tool call: the handler answers on
\* this very step, and not with an error.
NoOperationStep(r) ==
  /\ pc[r] = "agent_interpret"
  /\ pc'[r] = "done"
  /\ resp'[r].code # 500

\* C23: when the intent service chooses no operation the agent answers 200
\* with action "none" and no result, reads and writes no meeting (it answers
\* without a store call and the store is as before), and appends exactly the
\* user turn and one plain assistant turn to the history of the request's
\* session, leaving the other sessions alone.
C23_NoOperation ==
  [][\A r \in Slots :
       NoOperationStep(r) =>
         LET q == args[r].query
             new == <<UserTurn(q), PlainReply(q)>>
         IN /\ resp'[r] = OkResp("agent", 200, "none", NoResult)
            /\ store' = store
            /\ nextId' = nextId
            /\ Len(After(r)) >= 2
            /\ LastEntries(After(r), 2) = new
            /\ Len(Before(r)) <= 7 => After(r) = Before(r) \o new
            /\ \A sid \in SessionIds \ {loc[r].session} :
                 conversationHistories'[sid] = conversationHistories[sid]]_vars

\* C23 witness: the request for session s1 was answered with action "none"
\* and the session holds the user turn and the plain reply.
C23_Witness ==
  /\ resp[1] = OkResp("agent", 200, "none", NoResult)
  /\ conversationHistories["s1"].history =
       <<UserTurn("q1"), PlainReply("q1")>>
  /\ ~conversationHistories["default"].present

\* -------------------------------------------------------------- C24
\* Tool calls of the agent runs: creates of [0, 2) and of the empty interval
\* [0, 0), forced or not; updates and deletes of a stored, an unknown and a
\* malformed id; a date that does not parse.
AgentRunArgs(tool) ==
  CASE tool = "create_meeting" ->
         {[NoArgs EXCEPT !.title = "T1", !.organizer = "org",
                         !.startTime = 0, !.endTime = e, !.forceCreate = f] :
            e \in {0, MaxTime, BadDate}, f \in BOOLEAN}
    [] tool = "update_meeting" ->
         {[NoArgs EXCEPT !.id = i, !.endTime = e] :
            i \in {1, MaxMeetings, BadId}, e \in {UndefDate, 1, BadDate}}
    [] tool = "delete_meeting" ->
         {[NoArgs EXCEPT !.id = i] : i \in {1, BadId}}
    [] tool = "get_meetings" ->
         {[NoArgs EXCEPT !.startTime = d] : d \in {UndefDate, BadDate}}
    [] OTHER -> {NoArgs}

\* A new agent request arrives (slot 1).
AgentArrives ==
  \E q \in {NoStr, "q1"} : AgentStart(1, q, NoStr)

\* The pending await of the request resolves or rejects and the handler
\* runs up to its next await or to its response.
AgentContinues ==
  \/ \E ok \in BOOLEAN : MongooseConnect(1, ok)
  \/ AgentConnected(1)
  \/ \E ok \in BOOLEAN, tool \in Tools \cup {"none", "other_tool"} :
       \E fa \in AgentRunArgs(tool) : AgentInterpreted(1, ok, tool, fa)
  \/ AgentCreateChecked(1)
  \/ AgentCreateCreated(1)
  \/ AgentGot(1)
  \/ AgentUpdateLoaded(1)
  \/ AgentUpdateChecked(1)
  \/ AgentUpdateSaved(1)
  \/ AgentDeleted(1)
  \/ \E ok \in BOOLEAN : AgentAnswered(1, ok)

NextAgent == AgentArrives \/ AgentContinues

\* Agent requests one at a time, every external call and store call free to
\* fail where the model has a failure; a pending await always settles
\* (promises resolve or reject, the event loop runs the continuation).
SpecAgent == Init /\ [][NextAgent]_vars /\ WF_vars(AgentContinues)

\* Slot r is handling a request.
InFlight(r) == pc[r] \notin {"idle", "done"}

\* Slot r has answered its request.
Answered(r) == pc[r] = "done"

\* A response is present exactly when the request has been answered.
OneResponseState ==
  \A r \in Slots : (resp[r] # NoResp) <=> Answered(r)

\* The response of slot r is written on the step that ends the request and
\* is not touched again before the next request starts (a request without
\* a query is answered on the step it arrives).
OneResponseStep ==
  \A r \in Slots :
    /\ (InFlight(r) /\ resp'[r] # resp[r]) => Answered(r)'
    /\ (Answered(r) /\ resp'[r] # resp[r]) =>
         \/ InFlight(r)' /\ resp'[r] = NoResp
         \/ resp'[r] = ErrorResp("agent", 400, "Query is required")

\* The 500-equivalent {error, message} body of the catch block.
Caught(r) == resp[r] = ErrorResp("agent", 500, "Internal Server Error")

\* The success envelope sent after both round trips: it names the operation
\* and carries its result.
EnvelopeAfterBoth(r) ==
  /\ resp[r].code = 200
  /\ resp[r].success
  /\ resp[r].action \in Tools \cup {"other_tool"}

\* The success envelope sent after the first round trip alone.
EnvelopeAfterOne(r) == resp[r] = OkResp("agent", 200, "none", NoResult)

\* The answer to a request without a query: no round trip at all.
QueryRequired(r) == resp[r] = ErrorResp("agent", 400, "Query is required")

RaceCreateArgs ==
  [NoArgs EXCEPT !.title = "T1", !.organizer = "org", !.startTime = 0,
                 !.endTime = MaxTime]

\* Two create requests in flight at once (both slots), through the REST
\* endpoint or through the agent, all for the longest interval; every
\* external call succeeds.
NextCreateRace ==
  \E r \in Slots :
    \/ RestCreateStart(r, "T1", NoStr, 0, MaxTime, "org")
    \/ RestCreateChecked(r)
    \/ RestCreateCreated(r)
    \/ AgentStart(r, "q1", NoStr)
    \/ AgentConnected(r)
    \/ AgentInterpreted(r, TRUE, "create_meeting", RaceCreateArgs)
    \/ AgentCreateChecked(r)
    \/ AgentCreateCreated(r)
    \/ AgentAnswered(r, TRUE)
    \/ MongooseConnect(r, TRUE)

SpecCreateRace == Init /\ [][NextCreateRace]_vars

\* The step is the commit of the create of slot r, whose conflict check was
\* done on an earlier step.
Committing(r) ==
  /\ pc[r] \in {"rest_create_insert", "agent_create_insert"}
  /\ pc'[r] # pc[r]

\* C25: nothing is locked or looked at again between the conflict check of a
\* create and its commit: the commit always stores the meeting with the
\* hasConflict computed by the check, also when an overlapping meeting was
\* committed in between, so two concurrent overlapping creates can both
\* check first and both be stored with hasConflict = false; a non-forced
\* agent create that passed the gate is not stopped by it afterwards.
C25_CheckThenCreateUnlocked ==
  [][\A r \in Slots :
       Committing(r) =>
         /\ store' = Append(store, [loc[r].meeting EXCEPT !.id = nextId])
         /\ store'[Len(store')].hasConflict = (loc[r].conflicts # <<>>)
         /\ pc'[r] \in {"done", "agent_respond"}
         /\ ~loc'[r].result.requiresConfirmation
         /\ ~resp'[r].result.requiresConfirmation]_vars

\* C25 witness: in the session-aware server two non-forced agent creates for
\* the same interval were both answered with success and both meetings are
\* stored with hasConflict = false.
C25_Witness ==
  /\ variant = "minimal"
  /\ Len(store) = 2
  /\ \A i \in {1, 2} : ~store[i].hasConflict
  /\ store[1].startTime < store[2].endTime
  /\ store[1].endTime > store[2].startTime
  /\ \A r \in Slots :
       /\ resp[r].op = "agent"
       /\ resp[r].action = "create_meeting"
       /\ resp[r].result.success = "true"
       /\ ~resp[r].result.requiresConfirmation
       /\ resp[r].result.meeting = store[r] \/ resp[r].result.meeting = store[3 - r]

\* The same through the REST endpoint: two 201 answers, two overlapping
\* meetings, none flagged.
RestCreateRaceReached ==
  /\ Len(store) = 2
  /\ \A i \in {1, 2} : ~store[i].hasConflict /\ store[i].status # "cancelled"
  /\ store[1].endTime > store[2].startTime
  /\ store[1].startTime < store[2].endTime
  /\ \A r \in Slots : resp[r].op = "rest_create" /\ resp[r].code = 201

\* With one request at a time two non-forced agent creates of overlapping
\* intervals are never both stored by the session-aware server.
SequentialGateHolds ==
  variant = "minimal" =>
    ~ /\ Len(store) = 2
      /\ store[1].endTime > store[2].startTime
      /\ store[1].startTime < store[2].endTime
      /\ \A i \in {1, 2} : ~store[i].hasConflict

\* -------------------------------------------------------------- C26
\* Two agent requests in flight at once: the request with query q1 arrives
\* first (slot 1) and the request with query q2 (slot 2) arrives while the
\* first is being handled; both name the same session or none.  The intent
\* service answers without a tool, with get_meetings or with a name that is
\* no tool, and either completion may fail.
NextSessionRace ==
  \/ \E sid \in {NoStr, "s1"} :
       /\ pc = [r \in Slots |-> "idle"]
       /\ AgentStart(1, "q1", sid)
  \/ /\ pc[2] = "idle"
     /\ InFlight(1)
     /\ AgentStart(2, "q2", args[1].sessionId)
  \/ \E r \in Slots :
       \/ AgentConnected(r)
       \/ \E ok \in BOOLEAN, tool \in HistoryTools :
            AgentInterpreted(r, ok, tool, NoArgs)
       \/ AgentGot(r)
       \/ \E ok \in BOOLEAN : AgentAnswered(r, ok)
       \/ \E ok \in BOOLEAN : MongooseConnect(r, ok)

SpecSessionRace == InitHistory /\ [][NextSessionRace]_vars

\* C26: appends of concurrent requests of one session land in the order in
\* which the requests finish, not in the order in which they arrived: each
\* addToHistory call puts its whole exchange, unbroken, behind whatever the
\* session holds at that moment (no entry of an exchange is lost by the
\* interleaving itself), so the exchange of a request that arrived later can
\* stand before the exchange of one that arrived earlier.
C26_AppendsInCompletionOrder ==
  [][\A r \in Slots :
       (PlainAppend(r) \/ ToolAppend(r)) =>
         /\ Len(Before(r)) + Len(Exchange(r)) <= 9
         /\ After(r) = Before(r) \o Exchange(r)
         /\ \A sid \in SessionIds \ {loc[r].session} :
              conversationHistories'[sid] = conversationHistories[sid]]_vars

\* C26 witness: the session's history holds the exchange of q2, which
\* arrived second, in front of the exchange of q1, which arrived first.
C26_Witness ==
  \E sid \in SessionIds :
    LET h == conversationHistories[sid].history
    IN /\ Len(h) >= 4
       /\ h[1] = UserTurn("q2")
       /\ h[Len(h)].query = "q1"
       /\ \E i \in 2 .. Len(h) : h[i] = UserTurn("q1")
       /\ \A r \in Slots : Answered(r)

\* In these runs every answered exchange is stored whole: two or three
\* entries per request answered with success.
NoEntryLost ==
  \A sid \in SessionIds :
    LET h == conversationHistories[sid].history
        turns(q) == SelectSeq(h, LAMBDA e : e.query = q)
    IN \A q \in {"q1", "q2"} :
         \/ turns(q) = <<>>
         \/ turns(q) = <<UserTurn(q), PlainReply(q)>>
         \/ turns(q) = <<UserTurn(q), Invocation(q), ToolResult(q)>>

\* -------------------------------------------------------------- C27
\* The operation of slot r has been executed and the second completion (the
\* natural-language confirmation) is requested and pending.
AwaitingConfirmationText(r) == pc[r] = "agent_respond"

\* The exchange of slot r is what its session's history ends with.
ExchangeStored(r) ==
  LET h == conversationHistories[loc[r].session].history
      q == args[r].query
  IN /\ Len(h) >= 3
     /\ LastEntries(h, 3) = <<UserTurn(q), Invocation(q), ToolResult(q)>>

\* C27 as stated: the exchange is appended after the store mutation and
\* before the confirmation is requested, so while the second external call
\* is pending the session's history already ends with the exchange.
C27_Original ==
  \A r \in Slots :
    (variant = "minimal" /\ AwaitingConfirmationText(r)) => ExchangeStored(r)

\* C27 amended: the exchange is appended after the store mutation and after
\* the confirmation has come back from the external service, on the step
\* that sends the response: no step that executes the operation touches the
\* history, the step on which the second call resolves appends the exchange
\* and leaves the store alone, and when the second call fails nothing is
\* appended.
C27_Amended ==
  [][\A r \in Slots :
       /\ (~AwaitingConfirmationText(r) /\ AwaitingConfirmationText(r)') =>
            conversationHistories' = conversationHistories
       /\ store' # store => conversationHistories' = conversationHistories
       /\ (AwaitingConfirmationText(r) /\ Answered(r)') =>
            /\ store' = store
            /\ IF resp'[r].code = 200
               THEN variant = "minimal" =>
                      /\ Len(After(r)) >= 3
                      /\ LastEntries(After(r), 3) =
                           <<UserTurn(args[r].query), Invocation(args[r].query),
                             ToolResult(args[r].query)>>
               ELSE conversationHistories' = conversationHistories]_vars

\* C27 witness: a meeting has been created, the second completion is
\* pending, and the session's history is still empty.
C27_Witness ==
  /\ variant = "minimal"
  /\ AwaitingConfirmationText(1)
  /\ args[1].tool = "create_meeting"
  /\ loc[1].result.success = "true"
  /\ Len(store) = 1
  /\ conversationHistories[loc[1].session].history = <<>>

\* -------------------------------------------------------------- C28
\* The step on which the second completion of slot r resolves or rejects.
SecondCallSettles(r) ==
  /\ AwaitingConfirmationText(r)
  /\ pc'[r] # pc[r]

\* C28: the second external call is presentation only: on the step on which
\* it resolves or rejects the meeting store and the id counter stay as the
\* executed operation left them, and a success envelope carries the
\* operation's result as it was computed.
C28_SecondCallKeepsStore ==
  [][\A r \in Slots :
       SecondCallSettles(r) =>
         /\ store' = store
         /\ nextId' = nextId
         /\ Answered(r)'
         /\ resp'[r].code \in {200, 500}
         /\ resp'[r].code = 200 =>
              /\ resp'[r].result = loc[r].result
              /\ resp'[r].action = args[r].tool]_vars

\* C28 witness: the only meeting was deleted through the agent, the second
\* call resolved and the envelope was sent: the store is as the delete left
\* it and the envelope carries the deleted meeting.
C28_Witness ==
  /\ Answered(1)
  /\ EnvelopeAfterBoth(1)
  /\ resp[1].action = "delete_meeting"
  /\ resp[1].result.success = "true"
  /\ resp[1].result.meeting.id = 1
  /\ store = <<>>
  /\ nextId = 2

\* -------------------------------------------------------------- C29
\* The meeting a request in flight writes: the one an update addresses.
Addressed(id) ==
  \E r \in Slots :
    /\ args[r].id = id
    /\ \/ args[r].op = "rest_update"
       \/ args[r].op = "agent" /\ args[r].tool = "update_meeting"

\* C29: hasConflict is never validated again: on every step the stored
\* meetings other than the one an update addresses keep hasConflict and
\* conflictDetails (and everything else), whether a meeting is created,
\* updated or deleted around them.
C29_FlagsOfOthersKept ==
  [][\A id \in StoreIds(store) \cap StoreIds(store') :
       ~Addressed(id) => FindById(store', id) = FindById(store, id)]_vars

\* C29 witness: the only stored meeting has hasConflict = true although the
\* meeting it overlapped has been deleted.
C29_Witness ==
  /\ Len(store) = 1
  /\ store[1].hasConflict
  /\ nextId = 3
  /\ pc[1] = "done"
  /\ resp[1].op \in {"rest_delete", "agent"}

\* The other stale state: a meeting with hasConflict = false overlaps a
\* meeting that was created after it.
StaleFalseReached ==
  /\ Len(store) = 2
  /\ ~store[1].hasConflict
  /\ store[2].hasConflict
  /\ store[1].id < store[2].id
  /\ store[1].startTime < store[2].endTime
  /\ store[1].endTime > store[2].startTime

\* -------------------------------------------------------------- C30
\* The step is one of the handler of slot r.
Steps(r) ==
  pc'[r] # pc[r] \/ args'[r] # args[r] \/ loc'[r] # loc[r]

\* How far the agent handler has come: connection, first completion, the
\* steps of the one dispatched operation, second completion, response.
Stage(label) ==
  CASE label \in {"idle", "done"} -> 0
    [] label = "connecting" -> 1
    [] label = "connected" -> 2
    [] label = "agent_interpret" -> 3
    [] label \in {"agent_create_check", "agent_get", "agent_update_load",
                  "agent_delete"} -> 4
    [] label = "agent_update_check" -> 5
    [] label \in {"agent_create_insert", "agent_update_save"} -> 6
    [] label = "agent_respond" -> 7
    [] OTHER -> 8

\* The awaits whose resolution writes to the store.
MutatingLabels ==
  {"agent_create_insert", "agent_update_save", "agent_delete"}

\* C30: an agent request executes at most one operation and mutates the
\* store at most once: the handler only moves forward (it never comes back
\* to an operation step), the operation is chosen once, the store changes
\* only on the last step of the dispatched operation, and once a result is
\* there (success, pending confirmation or error) the only step left is the
\* answer, which leaves the store alone.
C30_OneOperationPerRequest ==
  [][\A r \in Slots :
       (Steps(r) /\ InFlight(r)) =>
         /\ Answered(r)' \/ Stage(pc'[r]) > Stage(pc[r])
         /\ args'[r].tool # args[r].tool =>
              pc[r] = "agent_interpret" \/ Answered(r)'
         /\ (store' # store \/ nextId' # nextId) =>
              /\ pc[r] \in MutatingLabels
              /\ pc'[r] = "agent_respond"
         /\ pc[r] = "agent_respond" =>
              /\ Answered(r)'
              /\ store' = store
              /\ nextId' = nextId]_vars

\* C30 witness: a non-forced create met a conflict, the request was answered
\* with the pending-confirmation result and nothing more was stored.
C30_Witness ==
  /\ Answered(1)
  /\ EnvelopeAfterBoth(1)
  /\ resp[1].action = "create_meeting"
  /\ resp[1].result.requiresConfirmation
  /\ resp[1].result.meeting = NoDoc
  /\ Len(store) = 1
  /\ nextId = 2

\* -------------------------------------------------------------- C31
\* Every tool-result record of h stands right behind the assistant
\* invocation record it answers.
ToolResultsPaired(h) ==
  \A i \in 1 .. Len(h) :
    h[i].role = "tool" =>
      /\ i > 1
      /\ h[i - 1] = Invocation(h[i].query)

\* C31 as stated: in every reachable state of every session history each
\* tool-result record is immediately preceded by the assistant invocation
\* record it answers (so no history starts with a tool-result record), also
\* after the cut to 9 entries.
C31_ToolResultsPaired ==
  \A sid \in SessionIds :
    ToolResultsPaired(conversationHistories[sid].history)

\* Up to the first cut the pairing holds: a history of fewer than 9 entries
\* that starts with a user turn has every tool result paired.
PairedBeforeCut ==
  \A sid \in SessionIds :
    LET h == conversationHistories[sid].history
    IN (Len(h) < 9 /\ (h # <<>> => h[1].role = "user")) =>
         ToolResultsPaired(h)

\* -------------------------------------------------------------- C32
\* The record at position i of h belongs to an exchange that is stored
\* whole, unbroken and in order around it.
InWholeExchange(h, i) ==
  LET q == h[i].query
  IN CASE h[i].role = "user" ->
            /\ i < Len(h)
            /\ \/ h[i + 1] = PlainReply(q)
               \/ /\ h[i + 1] = Invocation(q)
                  /\ i + 1 < Len(h)
                  /\ h[i + 2] = ToolResult(q)
       [] h[i].role = "assistant" ->
            /\ i > 1
            /\ h[i - 1] = UserTurn(q)
            /\ h[i].tool_calls => (i < Len(h) /\ h[i + 1] = ToolResult(q))
       [] OTHER ->
            /\ i > 2
            /\ h[i - 1] = Invocation(q)
            /\ h[i - 2] = UserTurn(q)

\* C32: the append is atomic per exchange: whatever the interleaving of two
\* requests of one session, the user, assistant and tool-result records of
\* each exchange stand next to each other in this order, with no record of
\* the other request between them.
C32_ExchangesContiguous ==
  \A sid \in SessionIds :
    LET h == conversationHistories[sid].history
    IN \A i \in 1 .. Len(h) : InWholeExchange(h, i)

\* C32 witness: both concurrent requests of the session were answered after
\* a tool call and the history holds the two exchanges, three records each,
\* the one of q2 first.
C32_Witness ==
  \E sid \in SessionIds :
    /\ conversationHistories[sid].history =
         <<UserTurn("q2"), Invocation("q2"), ToolResult("q2"),
           UserTurn("q1"), Invocation("q1"), ToolResult("q1")>>
    /\ \A r \in Slots : Answered(r) /\ resp[r].code = 200

\* -------------------------------------------------------------- C33
\* The session the agent request of slot r belongs to: the sessionId of its
\* body, or 'default' when the body has none.
TargetSession(r) ==
  IF args[r].sessionId # NoStr THEN args[r].sessionId ELSE "default"

\* The sessions whose entry of the Map the step changes.
ChangedSessions ==
  {sid \in SessionIds :
     conversationHistories'[sid] # conversationHistories[sid]}

\* C33: sessions are isolated.  No step changes more than one session; a
\* step of an agent request changes no session but its own, and a
\* clear-history step only empties; the request reads (builds its messages
\* from) and appends to its own session, which is 'default' when the body
\* has no sessionId.
C33_SessionsIsolated ==
  [][/\ Cardinality(ChangedSessions) <= 1
     /\ \A r \in Slots :
          /\ (InFlight(r) /\ args[r].op = "agent") =>
               /\ ChangedSessions \subseteq {TargetSession(r)}
               /\ (pc[r] = "connected" /\ Steps(r)) =>
                    /\ loc'[r].session = TargetSession(r)
                    /\ args[r].sessionId = NoStr => loc'[r].session = "default"
                    /\ loc'[r].messages =
                         conversationHistories[TargetSession(r)].history
               /\ (PlainAppend(r) \/ ToolAppend(r)) =>
                    /\ loc[r].session = TargetSession(r)
                    /\ Len(After(r)) >= 2
          /\ (Free(r) /\ resp'[r].op = "clear") =>
               \A sid \in ChangedSessions :
                 conversationHistories'[sid] = NoHistory]_vars

\* C33 witness: the shared session holds a plain exchange and session s1 a
\* tool exchange, side by side.
C33_Witness ==
  /\ Len(conversationHistories["default"].history) = 2
  /\ Len(conversationHistories["s1"].history) = 3
  /\ conversationHistories["s1"].history[3].role = "tool"
  /\ Answered(1)

\* -------------------------------------------------------------- C34
\* Agent requests one after another in slot 1 (shared session or s1, with
\* and without a tool, either completion failing or not) while clear-history
\* requests arrive in slot 2 at any moment; clear-history has no await and
\* is answered on the step it arrives.
NextClearRace ==
  \/ \E sid \in {NoStr, "s1"} : AgentStart(1, "q1", sid)
  \/ AgentConnected(1)
  \/ \E ok \in BOOLEAN, tool \in HistoryTools :
       AgentInterpreted(1, ok, tool, NoArgs)
  \/ AgentGot(1)
  \/ \E ok \in BOOLEAN : AgentAnswered(1, ok)
  \/ \E ok \in BOOLEAN : MongooseConnect(1, ok)
  \/ \E sid \in {NoStr, "default", "s1"} : ClearHistory(2, sid)

SpecClearRace == InitHistory /\ [][NextClearRace]_vars

\* The agent request of slot r has loaded its session's history and is
\* still in flight.
Loaded(r) ==
  /\ InFlight(r)
  /\ args[r].op = "agent"
  /\ loc[r].session # NoStr

\* The session of slot r has been cleared since the request loaded it: its
\* key is gone.
ClearedInFlight(r) ==
  /\ Loaded(r)
  /\ conversationHistories[loc[r].session] = NoHistory

\* C34: a clear-history that completes while an agent request of the same
\* session is in flight does not keep the session empty: the session stays
\* without entries only until the request completes, and when the request
\* is answered with success its addToHistory creates the key again and the
\* history is exactly its exchange.
C34_ClearThenAppend ==
  [][\A r \in Slots :
       ClearedInFlight(r) =>
         IF Answered(r)' /\ resp'[r].code = 200
         THEN /\ conversationHistories'[loc[r].session].present
              /\ After(r) = Exchange(r)
         ELSE After(r) = <<>>]_vars

\* C34 witness: the request loaded a history that was not empty, a
\* clear-history for its session has been answered since, and the request
\* is about to complete.
C34_Witness ==
  /\ ClearedInFlight(1)
  /\ loc[1].messages # <<>>
  /\ pc[1] = "agent_respond"
  /\ resp[2] = OkResp("clear", 200, NoStr, NoResult)

\* The state after both have finished: the session holds one exchange.
ClearRaceFinished ==
  /\ Answered(1)
  /\ resp[1].code = 200
  /\ resp[2] = OkResp("clear", 200, NoStr, NoResult)
  /\ conversationHistories["s1"].history =
       <<UserTurn("q1"), Invocation("q1"), ToolResult("q1")>>

\* -------------------------------------------------------------- C35
\* The step is the commit of the agent create of slot r on the server with
\* the gate.
AgentCommits(r) ==
  /\ variant = "minimal"
  /\ pc[r] = "agent_create_insert"
  /\ Steps(r)

\* The stored meetings the create of slot r overlaps at this moment.
OverlapsNow(r) == Overlapping(loc[r].start, loc[r].end, NoId)

\* C35: with one request at a time, the agent commits a create that
\* overlaps a stored meeting only when forceCreate is true in that request;
\* a forced create passes the check whatever it finds and commits exactly
\* one meeting, whose hasConflict says whether an overlap exists at that
\* moment.  The session's earlier results play no part.
C35_ForceCreateCommits ==
  [][\A r \in Slots :
       /\ AgentCommits(r) =>
            /\ OverlapsNow(r) # {} => args[r].forceCreate
            /\ store' = Append(store, [loc[r].meeting EXCEPT !.id = nextId])
            /\ store'[Len(store')].hasConflict = (OverlapsNow(r) # {})
            /\ loc'[r].result.success = "true"
            /\ loc'[r].result.hasConflict = (OverlapsNow(r) # {})
       /\ (GateCheck(r) /\ Steps(r) /\ args[r].forceCreate) =>
            /\ pc'[r] = "agent_create_insert"
            /\ loc'[r].meeting.hasConflict = (OverlapsNow(r) # {})]_vars

\* C35 witness: the first agent request of the shared session was a forced
\* create overlapping the stored meeting: answered with success, stored with
\* hasConflict = true, and the session holds this one exchange only (no
\* confirmation was asked before).
C35_Witness ==
  /\ variant = "minimal"
  /\ Answered(1)
  /\ resp[1].action = "create_meeting"
  /\ resp[1].result.success = "true"
  /\ resp[1].result.hasConflict
  /\ Len(store) = 2
  /\ store[2] = resp[1].result.meeting
  /\ store[2].hasConflict
  /\ Len(conversationHistories["default"].history) = 3

\* -------------------------------------------------------------- C36
\* C36: under the fuller schema, in every state reached by create and
\* update requests handled one at a time, a stored meeting has
\* conflictDetails set if and only if its hasConflict is true (and the
\* summary then counts at least one meeting).
C36_DetailsIffConflict ==
  variant = "full" =>
    \A m \in Range(store) :
      /\ (m.conflictDetails # NoDetails) <=> m.hasConflict
      /\ m.hasConflict => m.conflictDetails.n >= 1

\* C36 witness: of two stored meetings one was moved onto the other by a PUT
\* and carries the update's summary of one conflict, the other has neither
\* flag nor summary.
C36_Witness ==
  /\ variant = "full"
  /\ Len(store) = 2
  /\ \E i \in {1, 2} :
       /\ store[i].hasConflict
       /\ store[i].conflictDetails = DetailsRestUpdate(<<store[3 - i]>>)
       /\ ~store[3 - i].hasConflict
       /\ store[3 - i].conflictDetails = NoDetails

\* -------------------------------------------------------------- C37
\* The step on which the second completion of slot r rejects.
SecondCallFails(r) ==
  /\ SecondCallSettles(r)
  /\ resp'[r].code = 500

\* The failure of the second call reaches the caller as the 500-equivalent
\* error, the store keeps what the operation committed and the histories
\* are not touched.
FailureKeepsCommit(r) ==
  SecondCallFails(r) =>
    /\ resp'[r] = ErrorResp("agent", 500, "Internal Server Error")
    /\ store' = store
    /\ nextId' = nextId
    /\ conversationHistories' = conversationHistories

\* Slot r handles a create that was committed before and is submitted
\* again: the same meeting is stored, and (where sessions exist) the
\* session holds no exchange, i.e. every earlier request of these runs ended
\* with the 500 answer.  The conflict check is about to resolve.
Resubmitted(r) ==
  /\ pc[r] = "agent_create_check"
  /\ Steps(r)
  /\ variant = "minimal" =>
       conversationHistories[loc[r].session].history = <<>>
  /\ \E m \in Range(store) :
       /\ m.title = args[r].title
       /\ m.startTime = loc[r].start
       /\ m.endTime = loc[r].end

\* C37 as stated: when the second external call fails after the commit the
\* caller gets the 500-equivalent error, the mutation stays and no exchange
\* is appended, so the same create submitted again goes on to add a second
\* meeting.
C37_Original ==
  [][\A r \in Slots :
       /\ FailureKeepsCommit(r)
       /\ Resubmitted(r) => pc'[r] = "agent_create_insert"]_vars

\* C37 amended: when the second external call fails after the commit the
\* caller gets the 500-equivalent error, the mutation stays and no exchange
\* is appended; the same create submitted again is handled as a new request
\* that finds the committed meeting as a conflict: the server with the gate
\* stops it with requiresConfirmation unless forceCreate is true, and with
\* forceCreate, or on the server without gate, it goes on to add a second
\* meeting flagged hasConflict.
C37_Amended ==
  [][\A r \in Slots :
       /\ FailureKeepsCommit(r)
       /\ Resubmitted(r) =>
            IF variant = "minimal" /\ ~args[r].forceCreate
            THEN /\ pc'[r] = "agent_respond"
                 /\ loc'[r].result.requiresConfirmation
                 /\ store' = store
            ELSE /\ pc'[r] = "agent_create_insert"
                 /\ loc'[r].meeting.hasConflict
                 /\ store' = store]_vars

\* C37 witness: the create was committed, its second call failed (the
\* session holds no exchange), and the same create submitted again has been
\* stopped with requiresConfirmation: one meeting stored.
C37_Witness ==
  /\ variant = "minimal"
  /\ AwaitingConfirmationText(1)
  /\ loc[1].result.requiresConfirmation
  /\ conversationHistories[loc[1].session].history = <<>>
  /\ Len(store) = 1
  /\ store[1].title = args[1].title
  /\ store[1].startTime = loc[1].start
  /\ store[1].endTime = loc[1].end

\* On the server without gate the resubmitted create is about to be
\* inserted next to the committed one.
ResubmittedCommitsTwice ==
  /\ variant = "full"
  /\ Len(store) = 2
  /\ store[1].title = store[2].title
  /\ store[1].startTime = store[2].startTime
  /\ store[1].endTime = store[2].endTime
  /\ store[2].hasConflict

\* -------------------------------------------------------------- C38
\* The entries of every session are the same after the step.
HistoriesKept ==
  \A sid \in SessionIds :
    conversationHistories'[sid].history = conversationHistories[sid].history

\* The step of slot r ends its agent request with the success envelope.
SuccessEnvelopeStep(r) ==
  /\ Steps(r)
  /\ pc'[r] = "done"
  /\ resp'[r].op = "agent"
  /\ resp'[r].code = 200
  /\ resp'[r].success

\* The step of slot r appends exactly one exchange to the session of its
\* request (the cap applied afterwards) and touches no other session.
AppendsOneExchange(r) ==
  LET all == Before(r) \o Exchange(r)
  IN /\ After(r) = LastEntries(all, Min(Len(all), HistoryCap))
     /\ \A sid \in SessionIds \ {loc[r].session} :
          conversationHistories'[sid] = conversationHistories[sid]

\* The slots whose step calls addToHistory.
Appending == {r \in Slots : PlainAppend(r) \/ ToolAppend(r)}

\* What holds of every append: it is the step that returns the success
\* envelope, it adds one exchange, and an operation's result of any kind
\* is recorded as a tool exchange.
AppendOnSuccess ==
  \A r \in Slots :
    /\ SuccessEnvelopeStep(r) <=> r \in Appending
    /\ r \in Appending => AppendsOneExchange(r)
    /\ ToolAppend(r) =>
         /\ resp'[r].result = loc[r].result
         /\ Len(After(r)) >= 3
         /\ LastEntries(After(r), 3) =
              <<UserTurn(args[r].query), Invocation(args[r].query),
                ToolResult(args[r].query)>>

\* The step is a clear-history request that names a session: the session's
\* key is deleted.
ClearStep ==
  \E r \in Slots, sid \in SessionIds :
    /\ pc'[r] = "done"
    /\ resp'[r] = OkResp("clear", 200, NoStr, NoResult)
    /\ conversationHistories' = DeleteHistory(conversationHistories, sid)

\* Agent requests one at a time with every operation and every failure of
\* SpecAgent, and clear-history requests between them.
NextSessions ==
  \/ NextAgent
  \/ \E sid \in {NoStr, "default"} : ClearHistory(1, sid)

SpecSessions == Init /\ [][NextSessions]_vars

\* C38 as stated: the entries of a session history change only on the step
\* on which an agent request returns the success envelope.  Each such step
\* appends exactly one exchange, whatever the operation's result was (a
\* pending-confirmation, validation-error, not-found or unknown-operation
\* result is recorded as a tool exchange like any other), and a step that
\* ends a request with a 400 or 500 answer, or any other step, changes
\* nothing.
C38_Original ==
  [][variant = "minimal" =>
       /\ AppendOnSuccess
       /\ Appending = {} => HistoriesKept]_vars

\* C38 amended: apart from a clear-history request, which empties the
\* session it names, the entries of a session history change only on the
\* step on which an agent request returns the success envelope.  Each such
\* step appends exactly one exchange, whatever the operation's result was,
\* and a step that ends an agent request with a 400 or 500 answer, or any
\* other step of the agent handler, changes nothing.
C38_Amended ==
  [][variant = "minimal" =>
       /\ AppendOnSuccess
       /\ Appending = {} => (HistoriesKept \/ ClearStep)
       /\ \A r \in Slots :
            (Steps(r) /\ r \notin Appending) => HistoriesKept]_vars

\* C38 witness: a create was committed and its second call failed (500,
\* nothing appended); the next request was stopped with the
\* pending-confirmation result, returned the success envelope and is the one
\* exchange the session holds.
C38_Witness ==
  /\ variant = "minimal"
  /\ Answered(1)
  /\ resp[1].code = 200
  /\ resp[1].result.requiresConfirmation
  /\ Len(store) = 1
  /\ conversationHistories["default"].history =
       <<UserTurn("q1"), Invocation("q1"), ToolResult("q1")>>

\* The other results the envelope can carry are recorded the same way.
ValidationErrorRecorded ==
  /\ variant = "minimal"
  /\ Answered(1)
  /\ resp[1].code = 200
  /\ resp[1].result.error = "endTime must be after startTime"
  /\ Len(conversationHistories["default"].history) = 3

NotFoundRecorded ==
  /\ variant = "minimal"
  /\ Answered(1)
  /\ resp[1].code = 200
  /\ resp[1].result.error = "Meeting not found"
  /\ Len(conversationHistories["default"].history) = 3

UnknownOperationRecorded ==
  /\ variant = "minimal"
  /\ Answered(1)
  /\ resp[1].code = 200
  /\ resp[1].result = UnknownFunction
  /\ Len(conversationHistories["default"].history) = 3

\* A request answered 400 or 500 after the session already holds an
\* exchange: the entries are the ones it held.
ErrorAfterExchange ==
  /\ variant = "minimal"
  /\ Answered(1)
  /\ resp[1].code \in {400, 500}
  /\ Len(conversationHistories["default"].history) = 3

\* A clear-history request has emptied a session that held an exchange
\* (the meeting its request created is still stored).
ClearedAfterExchange ==
  /\ variant = "minimal"
  /\ resp[1] = OkResp("clear", 200, NoStr, NoResult)
  /\ conversationHistories["default"] = NoHistory
  /\ Len(store) = 1

====
